---- MODULE Spec2Model ----
(***************************************************************************)
(* A model of famous-flex src/ScrollView.js (the scroll-offset pipeline of *)
(* ScrollView) and of LayoutNode (the per-item interpolation machine).     *)
(*                                                                         *)
(* Where the particle position is rounded (Spec), the ScrollView is built  *)
(* with options.particleRounding = 2 and its sizes, offsets, positions and *)
(* deltas are whole pixels: pos / particleRounding, Math.round and the     *)
(* product are then exact in doubles, and rounding is not the identity.    *)
(* A JavaScript number-or-undefined is a record [k, n]: k is "num",        *)
(* "nan" or "undef", and n is the number when k = "num" (0 otherwise).     *)
(***************************************************************************)
EXTENDS Integers, Sequences, FiniteSets, TLC

VARIABLES
    self,       \* the ScrollView instance: this._scroll, this._viewSequence, ...
    seqLen,     \* length of the view sequence owned by the data source
    pc,         \* "idle", or "layout" while a recursive _layout call is pending
    layoutArgs, \* the (size, scrollOffset) of the pending recursive _layout call
    passes,     \* number of _layout passes run by the commit of this frame
    touch,      \* the touch recogniser: TRUE between 'start' and 'end'
    hist,       \* history of the last handler (ghost, read by the properties)
    call,       \* harness of the pure-function specification
    node,       \* a LayoutNode instance
    clock       \* harness of the LayoutNode specification

vars == <<self, seqLen, pc, layoutArgs, passes, touch, hist, call, node, clock>>

----------------------------------------------------------------------------
(* JavaScript numbers *)

Num(n) == [k |-> "num", n |-> n]
NaN == [k |-> "nan", n |-> 0]
Undefined == [k |-> "undef", n |-> 0]
IsNum(v) == v.k = "num"

\* a + b: a number only when both are numbers (undefined + 1 is NaN)
JsAdd(a, b) == IF IsNum(a) /\ IsNum(b) THEN Num(a.n + b.n) ELSE NaN
JsSub(a, b) == IF IsNum(a) /\ IsNum(b) THEN Num(a.n - b.n) ELSE NaN
\* comparisons with NaN or undefined are false
JsLt(a, b) == IsNum(a) /\ IsNum(b) /\ a.n < b.n
JsGt(a, b) == IsNum(a) /\ IsNum(b) /\ a.n > b.n
JsGe(a, b) == IsNum(a) /\ IsNum(b) /\ a.n >= b.n
\* a === b: NaN is not equal to itself
JsStrictEq(a, b) ==
    \/ IsNum(a) /\ IsNum(b) /\ a.n = b.n
    \/ a.k = "undef" /\ b.k = "undef"
\* truthiness of a number: 0, NaN and undefined are falsy
JsTruthy(a) == IsNum(a) /\ a.n # 0
JsMax(a, b) ==
    IF IsNum(a) /\ IsNum(b) THEN Num(IF a.n >= b.n THEN a.n ELSE b.n) ELSE NaN
\* a & bit, for bit a power of two: undefined and NaN convert to 0
JsHasBit(a, bit) == IsNum(a) /\ (a.n \div bit) % 2 = 1
\* a |= bit
JsOrBit(a, bit) ==
    IF JsHasBit(a, bit) THEN a ELSE Num((IF IsNum(a) THEN a.n ELSE 0) + bit)

\* An event sample: a vector [a, b] when arr, else the scalar a.
Vec(a, b) == [arr |-> TRUE, a |-> a, b |-> b]
Scalar(a) == [arr |-> FALSE, a |-> a, b |-> 0]
\* sample[d]: indexing a number gives undefined
JsIndex(sample, d) ==
    IF sample.arr THEN Num(IF d = 0 THEN sample.a ELSE sample.b) ELSE Undefined
\* Array.isArray(sample) ? sample[d] : sample
JsAxis(sample, d) == IF sample.arr THEN JsIndex(sample, d) ELSE Num(sample.a)

----------------------------------------------------------------------------
(* ScrollView *)

Bounds == [NONE |-> 0, FIRST |-> 1, LAST |-> 2, BOTH |-> 3]

\* options.particleRounding of the instance, in pixels (the default is 0.2)
particleRounding == 2

\* this._direction: 1 is vertical
direction == 1

TouchSync == "touch"
ScrollSync == "wheel"

\* The instance as the constructor leaves it.
NewScrollView(anchor) ==
    [ scroll |->
        [ moveStart |-> Undefined,
          moveOffset |-> Num(0),
          scrollDelta |-> Num(0),
          position |-> Num(0),
          velocity |-> Num(0),
          boundsReached |-> Undefined,
          lastScrollOffset |-> Undefined,
          edgeSpringOffset |-> Undefined,
          edgeSpringForceId |-> FALSE,
          edgeSpringVector |-> Num(0) ],
      viewSequence |-> anchor,
      target |-> << >>,
      endReachedPrev |-> FALSE,
      _trueSizeRequested |-> FALSE,
      unresolved |-> 0,
      contextSizeCache |-> <<0, 0>>,
      scrollOffsetCache |-> Undefined,
      isDirty |-> TRUE,
      thrown |-> FALSE ]

_moveStart(this, sync, event) ==
    LET s == this.scroll
        s1 == IF sync = TouchSync
              THEN [s EXCEPT !.moveStart = JsAxis(event.position, direction)]
              ELSE [s EXCEPT !.scrollDelta =
                        JsAdd(s.scrollDelta, JsAxis(event.delta, direction))]
    IN  [this EXCEPT !.scroll = [s1 EXCEPT !.velocity = Num(0)]]

\* (mutant) the wheel delta replaces the pending delta instead of adding to it
_moveUpdate_Replace(this, sync, event) ==
    LET s == this.scroll
    IN  IF sync = TouchSync
        THEN [this EXCEPT !.scroll.moveOffset =
                    JsSub(JsIndex(event.position, direction), s.moveStart)]
        ELSE [this EXCEPT
                !.scroll.scrollDelta = JsAxis(event.delta, direction),
                !.scroll.velocity = Num(0)]

_moveUpdate(this, sync, event) ==
    LET s == this.scroll
    IN  IF sync = TouchSync
        THEN [this EXCEPT !.scroll.moveOffset =
                    JsSub(JsIndex(event.position, direction), s.moveStart)]
        ELSE [this EXCEPT
                !.scroll.scrollDelta =
                    JsAdd(s.scrollDelta, JsAxis(event.delta, direction)),
                !.scroll.velocity = Num(0)]

\* (mutant) a touch end also clears the boundary bits
_moveEnd_ResetBounds(this, sync, event) ==
    LET s == this.scroll
    IN  IF sync = TouchSync
        THEN [this EXCEPT
                !.scroll.position = JsAdd(s.position, s.moveOffset),
                !.scroll.velocity =
                    IF event.hasVelocity
                    THEN JsAxis(event.velocity, direction)
                    ELSE s.velocity,
                !.scroll.moveOffset = Num(0),
                !.scroll.moveStart = Undefined,
                !.scroll.boundsReached = Num(Bounds.NONE)]
        ELSE [this EXCEPT
                !.scroll.scrollDelta =
                    JsAdd(s.scrollDelta, JsAxis(event.delta, direction)),
                !.scroll.velocity = Num(0)]

_moveEnd(this, sync, event) ==
    LET s == this.scroll
    IN  IF sync = TouchSync
        THEN [this EXCEPT
                !.scroll.position = JsAdd(s.position, s.moveOffset),
                !.scroll.velocity =
                    IF event.hasVelocity
                    THEN JsAxis(event.velocity, direction)
                    ELSE s.velocity,
                !.scroll.moveOffset = Num(0),
                !.scroll.moveStart = Undefined]
        ELSE [this EXCEPT
                !.scroll.scrollDelta =
                    JsAdd(s.scrollDelta, JsAxis(event.delta, direction)),
                !.scroll.velocity = Num(0)]

\* Math.round(pos / r) * r for a whole pos and r = 2: pos / r is a whole
\* number or a whole number and a half, which Math.round rounds up
_getParticlePosition(this) ==
    LET pos == this.scroll.position
        r == particleRounding
    IN  IF IsNum(pos) THEN Num(((2 * pos.n + r) \div (2 * r)) * r) ELSE NaN

\* (mutant) a wheel delta past a reached boundary is not discarded
_getScrollOffset_NoDiscard(this) ==
    [ this |-> this,
      ret |-> JsAdd(JsAdd(_getParticlePosition(this), this.scroll.moveOffset),
                    this.scroll.scrollDelta) ]

\* Returns the instance (scrollDelta may be reset) and the offset.
_getScrollOffset(this) ==
    LET s == this.scroll
        discard ==
            \/ JsGt(s.scrollDelta, Num(0)) /\ JsHasBit(s.boundsReached, Bounds.FIRST)
            \/ JsLt(s.scrollDelta, Num(0)) /\ JsHasBit(s.boundsReached, Bounds.LAST)
        this1 == IF discard THEN [this EXCEPT !.scroll.scrollDelta = Num(0)] ELSE this
    IN  [ this |-> this1,
          ret |-> JsAdd(JsAdd(_getParticlePosition(this1), this1.scroll.moveOffset),
                        this1.scroll.scrollDelta) ]

----------------------------------------------------------------------------
(* The view sequence: nodes 1..seqLen, 0 is the null cursor; the render    *)
(* node of sequence node i is i.                                           *)

getPrevious(i) == IF i > 1 THEN i - 1 ELSE 0
getNext(i) == IF i >= 1 /\ i < seqLen THEN i + 1 ELSE 0

\* A Spec of the window: transform[12 + direction] is offset, size[direction]
\* is size.
MkSpec(renderNode, offset, size, tsr) ==
    [renderNode |-> renderNode, offset |-> offset, size |-> size,
     trueSizeRequested |-> tsr]

\* Index of the first Spec of the render node of viewSequence; 0 when there
\* is none (the source's -1 / undefined).
_lookupSpecByViewSequence(specs, viewSequence) ==
    IF viewSequence = 0
    THEN 0
    ELSE LET found == {i \in 1..Len(specs) : specs[i].renderNode = viewSequence}
         IN  IF found = {} THEN 0
             ELSE CHOOSE i \in found : \A j \in found : i <= j

SpecEnd(spec) == JsAdd(spec.offset, Num(spec.size))

\* (mutant) a previous item is promoted whether or not it is visible
RECURSIVE NormalizePrev_NoVisibleCheck(_, _, _)
NormalizePrev_NoVisibleCheck(this, scrollOffset, sequenceNode) ==
    LET idx == _lookupSpecByViewSequence(this.target, sequenceNode)
        spec == this.target[idx]
    IN  IF sequenceNode = 0 THEN [this |-> this, ret |-> scrollOffset]
        ELSE IF idx = 0 \/ spec.trueSizeRequested
        THEN [this |-> this, ret |-> scrollOffset]
        ELSE NormalizePrev_NoVisibleCheck(
                [this EXCEPT
                    !.viewSequence = sequenceNode,
                    !.scroll.position = JsSub(this.scroll.position, Num(spec.size))],
                JsSub(scrollOffset, Num(spec.size)),
                getPrevious(sequenceNode))

\* The while loop of the scrollOffset >= 0 branch.
RECURSIVE NormalizePrev(_, _, _)
NormalizePrev(this, scrollOffset, sequenceNode) ==
    LET idx == _lookupSpecByViewSequence(this.target, sequenceNode)
        spec == this.target[idx]
    IN  IF sequenceNode = 0 THEN [this |-> this, ret |-> scrollOffset]
        ELSE IF idx = 0 \/ spec.trueSizeRequested
        THEN [this |-> this, ret |-> scrollOffset]
        ELSE IF JsLt(SpecEnd(spec), Num(0))
        THEN [this |-> this, ret |-> scrollOffset]
        ELSE NormalizePrev(
                [this EXCEPT
                    !.viewSequence = sequenceNode,
                    !.scroll.position = JsSub(this.scroll.position, Num(spec.size))],
                JsSub(scrollOffset, Num(spec.size)),
                getPrevious(sequenceNode))

\* (mutant) the passed item counts as hidden only when its end is below 0,
\* and as visible only when above 0
RECURSIVE NormalizeNext_Le(_, _, _, _)
NormalizeNext_Le(this, scrollOffset, prevSequenceNode, sequenceNode) ==
    LET idx == _lookupSpecByViewSequence(this.target, prevSequenceNode)
        prevSpec == this.target[idx]
    IN  IF sequenceNode = 0 THEN [this |-> this, ret |-> scrollOffset]
        ELSE IF idx = 0 \/ prevSpec.trueSizeRequested
        THEN [this |-> this, ret |-> scrollOffset]
        ELSE IF JsGt(SpecEnd(prevSpec), Num(0))
        THEN [this |-> this, ret |-> scrollOffset]
        ELSE NormalizeNext_Le(
                [this EXCEPT
                    !.viewSequence = sequenceNode,
                    !.scroll.position = JsAdd(this.scroll.position, Num(prevSpec.size))],
                JsAdd(scrollOffset, Num(prevSpec.size)),
                sequenceNode,
                getNext(sequenceNode))

\* (mutant) the offset and the particle move by the size of the item that
\* becomes the anchor, not of the item that is left
RECURSIVE NormalizeNext_NewAnchorSize(_, _, _, _)
NormalizeNext_NewAnchorSize(this, scrollOffset, prevSequenceNode, sequenceNode) ==
    LET idx == _lookupSpecByViewSequence(this.target, prevSequenceNode)
        prevSpec == this.target[idx]
        nidx == _lookupSpecByViewSequence(this.target, sequenceNode)
        moved == IF nidx = 0 THEN prevSpec.size ELSE this.target[nidx].size
    IN  IF sequenceNode = 0 THEN [this |-> this, ret |-> scrollOffset]
        ELSE IF idx = 0 \/ prevSpec.trueSizeRequested
        THEN [this |-> this, ret |-> scrollOffset]
        ELSE IF JsGe(SpecEnd(prevSpec), Num(0))
        THEN [this |-> this, ret |-> scrollOffset]
        ELSE NormalizeNext_NewAnchorSize(
                [this EXCEPT
                    !.viewSequence = sequenceNode,
                    !.scroll.position = JsAdd(this.scroll.position, Num(moved))],
                JsAdd(scrollOffset, Num(moved)),
                sequenceNode,
                getNext(sequenceNode))

\* The while loop of the scrollOffset < 0 branch.
RECURSIVE NormalizeNext(_, _, _, _)
NormalizeNext(this, scrollOffset, prevSequenceNode, sequenceNode) ==
    LET idx == _lookupSpecByViewSequence(this.target, prevSequenceNode)
        prevSpec == this.target[idx]
    IN  IF sequenceNode = 0 THEN [this |-> this, ret |-> scrollOffset]
        ELSE IF idx = 0 \/ prevSpec.trueSizeRequested
        THEN [this |-> this, ret |-> scrollOffset]
        ELSE IF JsGe(SpecEnd(prevSpec), Num(0))
        THEN [this |-> this, ret |-> scrollOffset]
        ELSE NormalizeNext(
                [this EXCEPT
                    !.viewSequence = sequenceNode,
                    !.scroll.position = JsAdd(this.scroll.position, Num(prevSpec.size))],
                JsAdd(scrollOffset, Num(prevSpec.size)),
                sequenceNode,
                getNext(sequenceNode))

\* (mutant) an offset >= 0 is returned as it is: no previous item is promoted
_normalizeScrollOffset_ForwardOnly(this, size, scrollOffset) ==
    LET specs == this.target
        lastSpec == specs[Len(specs)]
    IN  IF this.viewSequence = 0
        THEN [this |-> this, ret |-> scrollOffset]
        ELSE IF JsGe(scrollOffset, Num(0))
        THEN [this |-> this, ret |-> scrollOffset]
        ELSE IF Len(specs) = 0
        THEN [this |-> [this EXCEPT !.thrown = TRUE], ret |-> scrollOffset]
        ELSE IF JsLt(SpecEnd(lastSpec), Num(size[direction + 1]))
        THEN [this |-> this, ret |-> scrollOffset]
        ELSE NormalizeNext(this, scrollOffset, this.viewSequence,
                           getNext(this.viewSequence))

\* Returns the instance (anchor and particle moved) and the offset; thrown
\* is set when the source throws a TypeError (lastSpec of an empty window).
_normalizeScrollOffset(this, size, scrollOffset) ==
    LET specs == this.target
        lastSpec == specs[Len(specs)]
    IN  IF this.viewSequence = 0
        THEN [this |-> this, ret |-> scrollOffset]
        ELSE IF JsGe(scrollOffset, Num(0))
        THEN NormalizePrev(this, scrollOffset, getPrevious(this.viewSequence))
        ELSE IF Len(specs) = 0
        THEN [this |-> [this EXCEPT !.thrown = TRUE], ret |-> scrollOffset]
        ELSE IF JsLt(SpecEnd(lastSpec), Num(size[direction + 1]))
        THEN [this |-> this, ret |-> scrollOffset]
        ELSE NormalizeNext(this, scrollOffset, this.viewSequence,
                           getNext(this.viewSequence))

\* (mutant) the walk stops at a missing Spec only, not at an unresolved size
RECURSIVE BoundsWalk_IgnoreTrueSize(_, _, _)
BoundsWalk_IgnoreTrueSize(specs, sequenceNode, found) ==
    LET idx == _lookupSpecByViewSequence(specs, sequenceNode)
    IN  IF sequenceNode = 0 THEN [returned |-> FALSE, spec |-> found]
        ELSE IF idx = 0
        THEN [returned |-> TRUE, spec |-> idx]
        ELSE BoundsWalk_IgnoreTrueSize(specs, getNext(sequenceNode), idx)

\* The forward walk of _calculateBoundsReached: the index of the Spec of the
\* last sequence node, 0 when a node has no Spec or an unresolved size (the
\* source returns); found is the Spec index assigned last (0: none yet).
RECURSIVE BoundsWalk(_, _, _)
BoundsWalk(specs, sequenceNode, found) ==
    LET idx == _lookupSpecByViewSequence(specs, sequenceNode)
    IN  IF sequenceNode = 0 THEN [returned |-> FALSE, spec |-> found]
        ELSE IF idx = 0 \/ specs[idx].trueSizeRequested
        THEN [returned |-> TRUE, spec |-> idx]
        ELSE BoundsWalk(specs, getNext(sequenceNode), idx)

\* (mutant) the end counts as reached although the last item still extends
\* past the viewport
_calculateBoundsReached_NoEndCheck(this, size, scrollOffset) ==
    LET specs == this.target
        topOk == /\ Len(specs) > 0
                 /\ this.endReachedPrev
                 /\ JsGe(scrollOffset, Num(0))
        b0 == IF this.viewSequence = 0 THEN Num(Bounds.FIRST) ELSE Num(Bounds.NONE)
        b1 == IF topOk /\ JsGe(specs[1].offset, Num(0))
              THEN JsOrBit(b0, Bounds.FIRST) ELSE b0
        walk == BoundsWalk(specs, this.viewSequence, IF topOk THEN 1 ELSE 0)
        spec == specs[walk.spec]
        b2 == IF this.endReachedPrev THEN JsOrBit(b1, Bounds.FIRST) ELSE b1
    IN  IF walk.returned
        THEN [this EXCEPT !.scroll.boundsReached = b1]
        ELSE IF walk.spec = 0
        THEN [this EXCEPT !.scroll.boundsReached = b1, !.thrown = TRUE]
        ELSE [this EXCEPT
                !.scroll.lastScrollOffset =
                    JsAdd(JsSub(Num(size[direction + 1]), SpecEnd(spec)), scrollOffset),
                !.scroll.boundsReached = JsOrBit(b2, Bounds.LAST)]

\* thrown is set when the source throws a TypeError (spec.transform of an
\* undefined spec).
_calculateBoundsReached(this, size, scrollOffset) ==
    LET specs == this.target
        topOk == /\ Len(specs) > 0
                 /\ this.endReachedPrev
                 /\ JsGe(scrollOffset, Num(0))
        b0 == IF this.viewSequence = 0 THEN Num(Bounds.FIRST) ELSE Num(Bounds.NONE)
        b1 == IF topOk /\ JsGe(specs[1].offset, Num(0))
              THEN JsOrBit(b0, Bounds.FIRST) ELSE b0
        walk == BoundsWalk(specs, this.viewSequence, IF topOk THEN 1 ELSE 0)
        spec == specs[walk.spec]
        b2 == IF this.endReachedPrev THEN JsOrBit(b1, Bounds.FIRST) ELSE b1
    IN  IF walk.returned
        THEN [this EXCEPT !.scroll.boundsReached = b1]
        ELSE IF walk.spec = 0
        THEN [this EXCEPT !.scroll.boundsReached = b1, !.thrown = TRUE]
        ELSE IF JsGt(SpecEnd(spec), Num(size[direction + 1]))
        THEN [this EXCEPT !.scroll.boundsReached = b1]
        ELSE [this EXCEPT
                !.scroll.lastScrollOffset =
                    JsAdd(JsSub(Num(size[direction + 1]), SpecEnd(spec)), scrollOffset),
                !.scroll.boundsReached = JsOrBit(b2, Bounds.LAST)]

\* (mutant) no early return, and the anchor vector is moved by the target
\* instead of being set to it
_updateEdgeSpring_Accumulate(this, edgeSpringOffset) ==
    IF edgeSpringOffset.k = "undef"
    THEN [this EXCEPT
            !.scroll.edgeSpringOffset = edgeSpringOffset,
            !.scroll.edgeSpringForceId = FALSE]
    ELSE [this EXCEPT
            !.scroll.edgeSpringOffset = edgeSpringOffset,
            !.scroll.edgeSpringForceId = TRUE,
            !.scroll.edgeSpringVector =
                JsAdd(this.scroll.edgeSpringVector, edgeSpringOffset)]

\* edgeSpringForceId is TRUE while the spring force is attached.
_updateEdgeSpring(this, edgeSpringOffset) ==
    IF JsStrictEq(edgeSpringOffset, this.scroll.edgeSpringOffset)
    THEN this
    ELSE IF edgeSpringOffset.k = "undef"
    THEN [this EXCEPT
            !.scroll.edgeSpringOffset = edgeSpringOffset,
            !.scroll.edgeSpringForceId = FALSE]
    ELSE [this EXCEPT
            !.scroll.edgeSpringOffset = edgeSpringOffset,
            !.scroll.edgeSpringForceId = TRUE,
            !.scroll.edgeSpringVector = edgeSpringOffset]

\* (mutant) the LAST boundary is asked first, so with BOTH the spring is set
\* to lastScrollOffset
_updateBounds_LastWins(this, size, scrollOffset) ==
    LET Calculated(this1) ==
            IF this1.thrown THEN this1
            ELSE _updateEdgeSpring(this1,
                    IF JsHasBit(this1.scroll.boundsReached, Bounds.LAST)
                    THEN this1.scroll.lastScrollOffset
                    ELSE IF JsHasBit(this1.scroll.boundsReached, Bounds.FIRST)
                    THEN Num(0)
                    ELSE Undefined)
    IN  Calculated(_calculateBoundsReached(this, size, scrollOffset))

_updateBounds(this, size, scrollOffset) ==
    LET Calculated(this1) ==
            IF this1.thrown THEN this1
            ELSE _updateEdgeSpring(this1,
                    IF JsHasBit(this1.scroll.boundsReached, Bounds.FIRST)
                    THEN Num(0)
                    ELSE IF JsHasBit(this1.scroll.boundsReached, Bounds.LAST)
                    THEN this1.scroll.lastScrollOffset
                    ELSE Undefined)
    IN  Calculated(_calculateBoundsReached(this, size, scrollOffset))

\* (mutant) the FIRST boundary does not clamp the integrated offset
_integrateScrollDelta_NoFirstClamp(this) ==
    LET s == this.scroll
        oldOffset == _getParticlePosition(this)
        newOffset ==
            IF JsHasBit(s.boundsReached, Bounds.LAST)
            THEN JsMax(s.lastScrollOffset, JsAdd(oldOffset, s.scrollDelta))
            ELSE JsAdd(oldOffset, s.scrollDelta)
    IN  IF ~JsTruthy(s.scrollDelta)
        THEN [this |-> this, ret |-> JsAdd(oldOffset, s.moveOffset)]
        ELSE [ this |-> [this EXCEPT
                            !.scroll.position = newOffset,
                            !.scroll.velocity = Num(0),
                            !.scroll.scrollDelta = Num(0)],
               ret |-> JsAdd(newOffset, s.moveOffset) ]

\* (mutant) the integrated wheel delta stays pending
_integrateScrollDelta_KeepDelta(this) ==
    LET s == this.scroll
        oldOffset == _getParticlePosition(this)
        newOffset ==
            IF JsHasBit(s.boundsReached, Bounds.FIRST) THEN Num(0)
            ELSE IF JsHasBit(s.boundsReached, Bounds.LAST)
            THEN JsMax(s.lastScrollOffset, JsAdd(oldOffset, s.scrollDelta))
            ELSE JsAdd(oldOffset, s.scrollDelta)
    IN  IF ~JsTruthy(s.scrollDelta)
        THEN [this |-> this, ret |-> JsAdd(oldOffset, s.moveOffset)]
        ELSE [ this |-> [this EXCEPT
                            !.scroll.position = newOffset,
                            !.scroll.velocity = Num(0)],
               ret |-> JsAdd(newOffset, s.moveOffset) ]

_integrateScrollDelta(this) ==
    LET s == this.scroll
        oldOffset == _getParticlePosition(this)
        newOffset ==
            IF JsHasBit(s.boundsReached, Bounds.FIRST) THEN Num(0)
            ELSE IF JsHasBit(s.boundsReached, Bounds.LAST)
            THEN JsMax(s.lastScrollOffset, JsAdd(oldOffset, s.scrollDelta))
            ELSE JsAdd(oldOffset, s.scrollDelta)
    IN  IF ~JsTruthy(s.scrollDelta)
        THEN [this |-> this, ret |-> JsAdd(oldOffset, s.moveOffset)]
        ELSE [ this |-> [this EXCEPT
                            !.scroll.position = newOffset,
                            !.scroll.velocity = Num(0),
                            !.scroll.scrollDelta = Num(0)],
               ret |-> JsAdd(newOffset, s.moveOffset) ]

----------------------------------------------------------------------------
(* The base layout controller and the layout function (FlowLayoutController *)
(* and a list layout): the window of Specs for an anchor and an offset.     *)

MaxItems == 3
ViewWidth == 5
ViewHeight == 6
ItemSize(i) == IF i % 2 = 1 THEN 3 ELSE 5

\* The size the layout function gets for node i: its own size, or 0 while
\* the rendering backend has not measured it (this.unresolved is the node
\* whose true size is requested and not yet known; 0: none).
ResolveSize(this, i) == IF i = this.unresolved THEN 0 ELSE ItemSize(i)

\* context.next(): from node i at offset while the viewport is not filled.
RECURSIVE LayoutNext(_, _, _, _)
LayoutNext(this, i, offset, size) ==
    LET end == JsAdd(offset, Num(ResolveSize(this, i)))
    IN  IF i = 0 THEN << >>
        ELSE <<MkSpec(i, offset, ResolveSize(this, i), i = this.unresolved)>>
             \o (IF JsLt(end, Num(size[direction + 1]))
                 THEN LayoutNext(this, getNext(i), end, size)
                 ELSE << >>)

\* context.prev(): before node i, whose start is at offset, while there is
\* room before the start.
RECURSIVE LayoutPrev(_, _, _)
LayoutPrev(this, i, offset) ==
    LET start == JsSub(offset, Num(ResolveSize(this, i)))
    IN  IF i = 0 \/ ~JsGt(offset, Num(0)) THEN << >>
        ELSE LayoutPrev(this, getPrevious(i), start)
             \o <<MkSpec(i, start, ResolveSize(this, i), i = this.unresolved)>>

\* prepareForLayout, the layout function, removeNonInvalidatedNodes and
\* buildSpecAndDestroyUnrenderedNodes: the ordered Specs, whether the start
\* of the sequence was reached (endReached(true)), and whether a node of
\* the window asked for a true size that is not known yet
\* (this._nodes._trueSizeRequested).
FlowLayout(this, size, scrollOffset) ==
    LET specs == LayoutPrev(this, getPrevious(this.viewSequence), scrollOffset)
                 \o LayoutNext(this, this.viewSequence, scrollOffset, size)
    IN  [this EXCEPT
            !.target = specs,
            !.endReachedPrev = (Len(specs) > 0 /\ specs[1].renderNode = 1),
            !._trueSizeRequested =
                \E k \in 1..Len(specs) : specs[k].trueSizeRequested]

\* The render loop of commit: every Spec of the window gets the render
\* output of its item, and the rendering backend measures what it renders,
\* so a size requested in this frame is known in the next one.
render(this) ==
    [this EXCEPT
        !.unresolved =
            IF \E k \in 1..Len(this.target) : this.target[k].renderNode = @
            THEN 0 ELSE @]

\* One invocation of _layout, up to its recursive call: again says that the
\* source calls _layout(size, newOffset) next.
_layout(this, size, scrollOffset) ==
    LET Integrated(norm, bounded, integ) ==
            [this |-> integ.this, scrollOffset |-> norm.ret, newOffset |-> integ.ret,
             delta |-> bounded.scroll.scrollDelta,
             again |-> ~JsStrictEq(integ.ret, norm.ret)]
        Bounded(norm, bounded) ==
            IF bounded.thrown
            THEN [this |-> bounded, scrollOffset |-> norm.ret, newOffset |-> norm.ret,
                  delta |-> bounded.scroll.scrollDelta, again |-> FALSE]
            ELSE Integrated(norm, bounded, _integrateScrollDelta(bounded))
        Normalized(norm) ==
            IF norm.this.thrown
            THEN [this |-> norm.this, scrollOffset |-> norm.ret, newOffset |-> norm.ret,
                  delta |-> norm.this.scroll.scrollDelta, again |-> FALSE]
            ELSE Bounded(norm, _updateBounds(norm.this, size, norm.ret))
    IN  Normalized(_normalizeScrollOffset(FlowLayout(this, size, scrollOffset),
                                          size, scrollOffset))

\* commit, up to the first recursive call of _layout; without a reflow the
\* base controller rebuilds the same Specs.
commit(this, size) ==
    LET Laid(got, pass) ==
            [this |-> pass.this, scrollOffset |-> got.ret, reflow |-> TRUE,
             gotDelta |-> got.this.scroll.scrollDelta,
             newOffset |-> pass.newOffset, delta |-> pass.delta, again |-> pass.again]
        Got(got) ==
            IF \/ size[1] # this.contextSizeCache[1]
               \/ size[2] # this.contextSizeCache[2]
               \/ this.isDirty
               \/ this._trueSizeRequested
               \/ ~JsStrictEq(this.scrollOffsetCache, got.ret)
            THEN Laid(got, _layout([got.this EXCEPT
                                        !.contextSizeCache = size,
                                        !.scrollOffsetCache = got.ret,
                                        !.isDirty = FALSE],
                                   size, got.ret))
            ELSE [this |-> got.this, scrollOffset |-> got.ret, reflow |-> FALSE,
                  gotDelta |-> got.this.scroll.scrollDelta,
                  newOffset |-> got.ret, delta |-> got.this.scroll.scrollDelta,
                  again |-> FALSE]
    IN  Got(_getScrollOffset(this))

----------------------------------------------------------------------------
(* The physics engine (famous PhysicsEngine, Particle, Drag, Spring): one  *)
(* step moves the particle by its velocity and by one unit toward the      *)
(* anchor of an attached edge spring, and drag slows it by one unit.       *)

Sign(n) == IF n > 0 THEN 1 ELSE IF n < 0 THEN -1 ELSE 0

PhysicsEngineStep(this) ==
    LET s == this.scroll
        pull == IF s.edgeSpringForceId /\ IsNum(s.edgeSpringVector)
                THEN Sign(s.edgeSpringVector.n - s.position.n)
                ELSE 0
    IN  [this EXCEPT
            !.scroll.position = Num(s.position.n + s.velocity.n + pull),
            !.scroll.velocity = Num(s.velocity.n - Sign(s.velocity.n))]

----------------------------------------------------------------------------
(* The environment: gesture samples, frames and the bounds of the model.   *)

PosBound == 6
DeltaBound == 3
\* the particle position a commit may leave (normalization adds the sizes
\* of the items the anchor passes)
CommitPosBound == 20
MaxPasses == 6

Abs(n) == IF n < 0 THEN -n ELSE n
Within(v, bound) == IsNum(v) => Abs(v.n) <= bound

StartCoords == {4}
TouchCoords == {1, 4, 7}
WheelDeltas == {-3, 3}
Velocities == {-1, 1}
\* A sample is a vector (the other axis holds 9) or a scalar.
Samples(coords) == {Vec(9, c) : c \in coords} \cup {Scalar(c) : c \in coords}
ContextSizes == {<<ViewWidth, ViewHeight>>}
\* The item that asks for its true size (0: every item has a fixed size).
TrueSizeItems == {0, 2}

NoArgs == [size |-> <<0, 0>>, scrollOffset |-> Undefined]
NoCall == [op |-> "none"]
NoNode == [op |-> "none"]

Hist(op, offset, discard, ran, delta, track, sum) ==
    [op |-> op, offset |-> offset, discard |-> discard, ran |-> ran,
     delta |-> delta, track |-> track, wheelSum |-> sum]

\* A gesture leaves the commit fields of the history blank and keeps the
\* wheel sum.
GestureHist(sum) ==
    Hist("event", Undefined, FALSE, FALSE, Undefined, hist.track, sum)

\* The wheel sum restarts after a handler that leaves no pending wheel delta
\* and no boundary bit.
Restart(this) ==
    /\ this.scroll.scrollDelta = Num(0)
    /\ ~JsHasBit(this.scroll.boundsReached, Bounds.FIRST)
    /\ ~JsHasBit(this.scroll.boundsReached, Bounds.LAST)

Init ==
    /\ seqLen \in {1, MaxItems}
    /\ \E u \in TrueSizeItems :
          /\ u <= seqLen
          /\ self = [NewScrollView(1) EXCEPT !.unresolved = u]
    /\ pc = "idle"
    /\ layoutArgs = NoArgs
    /\ passes = 0
    /\ touch = FALSE
    /\ hist = Hist("new", Undefined, FALSE, FALSE, Undefined, TRUE, 0)
    /\ call = NoCall
    /\ node = NoNode
    /\ clock = 0

TouchStart ==
    /\ pc = "idle" /\ ~touch
    /\ \E p \in Samples(StartCoords) :
          self' = _moveStart(self, TouchSync, [position |-> p])
    /\ touch' = TRUE
    /\ hist' = GestureHist( hist.wheelSum)
    /\ UNCHANGED <<seqLen, pc, layoutArgs, call, node, clock>>
    /\ passes' = 0

TouchUpdate ==
    /\ pc = "idle" /\ touch
    /\ \E p \in Samples(TouchCoords) :
          self' = _moveUpdate(self, TouchSync, [position |-> p])
    /\ hist' = GestureHist( hist.wheelSum)
    /\ UNCHANGED <<seqLen, pc, layoutArgs, touch, call, node, clock>>
    /\ passes' = 0

TouchEnd ==
    /\ pc = "idle" /\ touch
    /\ \E hasVelocity \in BOOLEAN, v \in Samples(Velocities) :
          /\ ~hasVelocity => v = Scalar(1)
          /\ self' = _moveEnd(self, TouchSync,
                              [hasVelocity |-> hasVelocity, velocity |-> v])
    /\ Within(self'.scroll.position, PosBound)
    /\ touch' = FALSE
    /\ hist' = [GestureHist(hist.wheelSum) EXCEPT !.op = "end"]
    /\ UNCHANGED <<seqLen, pc, layoutArgs, call, node, clock>>
    /\ passes' = 0

WheelUpdate ==
    /\ pc = "idle"
    /\ \E d \in Samples(WheelDeltas) :
          /\ self' = _moveUpdate(self, ScrollSync, [delta |-> d])
          /\ hist' = GestureHist(
                              IF hist.track
                              THEN hist.wheelSum + JsAxis(d, direction).n
                              ELSE 0)
    /\ Within(self'.scroll.scrollDelta, DeltaBound)
    /\ UNCHANGED <<seqLen, pc, layoutArgs, touch, call, node, clock>>
    /\ passes' = 0

PhysicsStep ==
    /\ pc = "idle"
    /\ IsNum(self.scroll.position) /\ IsNum(self.scroll.velocity)
    /\ self' = PhysicsEngineStep(self)
    /\ self' # self
    /\ Within(self'.scroll.position, PosBound)
    /\ hist' = [GestureHist(hist.wheelSum) EXCEPT !.op = "physics"]
    /\ UNCHANGED <<seqLen, pc, layoutArgs, touch, call, node, clock>>
    /\ passes' = 0

Commit ==
    /\ pc = "idle"
    /\ \E size \in ContextSizes :
          \E c \in {commit(self, size)} :
              /\ Within(c.this.scroll.position, CommitPosBound)
              /\ self' = IF c.again \/ c.this.thrown THEN c.this ELSE render(c.this)
              /\ pc' = IF c.again THEN "layout" ELSE "idle"
              /\ layoutArgs' = IF c.again
                               THEN [size |-> size, scrollOffset |-> c.newOffset]
                               ELSE NoArgs
              /\ passes' = IF c.reflow THEN 1 ELSE 0
              /\ hist' = Hist("commit", c.scrollOffset,
                              c.gotDelta # self.scroll.scrollDelta,
                              c.reflow, IF c.reflow THEN c.delta ELSE Undefined,
                              Restart(c.this), 0)
    /\ UNCHANGED <<seqLen, touch, call, node, clock>>

Relayout ==
    /\ pc = "layout"
    /\ \E l \in {_layout(self, layoutArgs.size, layoutArgs.scrollOffset)} :
           /\ self' = IF l.again \/ l.this.thrown THEN l.this ELSE render(l.this)
           /\ pc' = IF l.again THEN "layout" ELSE "idle"
           /\ layoutArgs' = IF l.again
                            THEN [layoutArgs EXCEPT !.scrollOffset = l.newOffset]
                            ELSE NoArgs
           /\ passes' = IF passes < MaxPasses THEN passes + 1 ELSE passes
           /\ hist' = Hist("relayout", layoutArgs.scrollOffset, FALSE, TRUE, l.delta,
                           Restart(l.this), 0)
    /\ UNCHANGED <<seqLen, touch, call, node, clock>>

\* The instances the scrollOffset >= 0 loop passes through: after each write
\* of the anchor (line 282) with the particle not yet moved, and after the
\* particle moved (line 283).
RECURSIVE NormalizePrevCuts(_, _, _)
NormalizePrevCuts(this, scrollOffset, sequenceNode) ==
    LET idx == _lookupSpecByViewSequence(this.target, sequenceNode)
        spec == this.target[idx]
        anchored == [this EXCEPT !.viewSequence = sequenceNode]
        moved == [anchored EXCEPT
                    !.scroll.position = JsSub(this.scroll.position, Num(spec.size))]
    IN  IF sequenceNode = 0 THEN {}
        ELSE IF idx = 0 \/ spec.trueSizeRequested THEN {}
        ELSE IF JsLt(SpecEnd(spec), Num(0)) THEN {}
        ELSE {anchored, moved}
             \cup NormalizePrevCuts(moved, JsSub(scrollOffset, Num(spec.size)),
                                    getPrevious(sequenceNode))

\* The same for the scrollOffset < 0 loop (lines 321 and 322).
RECURSIVE NormalizeNextCuts(_, _, _, _)
NormalizeNextCuts(this, scrollOffset, prevSequenceNode, sequenceNode) ==
    LET idx == _lookupSpecByViewSequence(this.target, prevSequenceNode)
        prevSpec == this.target[idx]
        anchored == [this EXCEPT !.viewSequence = sequenceNode]
        moved == [anchored EXCEPT
                    !.scroll.position = JsAdd(this.scroll.position, Num(prevSpec.size))]
    IN  IF sequenceNode = 0 THEN {}
        ELSE IF idx = 0 \/ prevSpec.trueSizeRequested THEN {}
        ELSE IF JsGe(SpecEnd(prevSpec), Num(0)) THEN {}
        ELSE {anchored, moved}
             \cup NormalizeNextCuts(moved, JsAdd(scrollOffset, Num(prevSpec.size)),
                                    sequenceNode, getNext(sequenceNode))

\* The instances a call of _normalizeScrollOffset passes through between its
\* first write and its return.
NormalizeCuts(this, size, scrollOffset) ==
    LET specs == this.target
        lastSpec == specs[Len(specs)]
    IN  IF this.viewSequence = 0 THEN {}
        ELSE IF JsGe(scrollOffset, Num(0))
        THEN NormalizePrevCuts(this, scrollOffset, getPrevious(this.viewSequence))
        ELSE IF Len(specs) = 0 THEN {}
        ELSE IF JsLt(SpecEnd(lastSpec), Num(size[direction + 1])) THEN {}
        ELSE NormalizeNextCuts(this, scrollOffset, this.viewSequence,
                               getNext(this.viewSequence))

\* The instance as a pass of _layout leaves it when a call made by the pass
\* throws: as the pass found it, or after one of its writes (the window of
\* line 499, every write of the anchor and of the particle position of the
\* normalization, boundsReached of lines 353 and 358 and of the whole of
\* _calculateBoundsReached, edgeSpringOffset of line 400, the spring
\* attached at line 410 with its vector not yet set, the spring, the
\* particle position of line 462, the integrated delta).
LayoutCuts(this, size, scrollOffset) ==
    LET laid == FlowLayout(this, size, scrollOffset)
        norm == _normalizeScrollOffset(laid, size, scrollOffset)
        specs == norm.this.target
        reset == [norm.this EXCEPT
                    !.scroll.boundsReached =
                        IF norm.this.viewSequence = 0
                        THEN Num(Bounds.FIRST) ELSE Num(Bounds.NONE)]
        top == IF /\ Len(specs) > 0
                  /\ norm.this.endReachedPrev
                  /\ JsGe(norm.ret, Num(0))
                  /\ JsGe(specs[1].offset, Num(0))
               THEN [reset EXCEPT
                        !.scroll.boundsReached = JsOrBit(@, Bounds.FIRST)]
               ELSE reset
        calc == _calculateBoundsReached(norm.this, size, norm.ret)
        bounded == _updateBounds(norm.this, size, norm.ret)
        offsetSet == [calc EXCEPT
                        !.scroll.edgeSpringOffset = bounded.scroll.edgeSpringOffset]
        attached == [offsetSet EXCEPT
                        !.scroll.edgeSpringForceId = bounded.scroll.edgeSpringForceId]
        integ == _integrateScrollDelta(bounded).this
        moved == [bounded EXCEPT !.scroll.position = integ.scroll.position]
    IN  {this, laid, norm.this, reset, top, calc, offsetSet, attached, bounded,
         moved, integ}
        \cup NormalizeCuts(laid, size, scrollOffset)

\* The recursion of _layout does not end (newOffset !== scrollOffset on
\* every pass; MaxPasses stands for the depth of the call stack, and by
\* then every pass leaves the instance as it found it, up to the writes cut
\* short): a call overflows the stack, the RangeError leaves _layout and
\* commit before the render loop, and the instance stays as the cut pass
\* left it, with no call pending.
StackOverflow ==
    /\ pc = "layout"
    /\ passes = MaxPasses
    /\ \E cut \in LayoutCuts(self, layoutArgs.size, layoutArgs.scrollOffset) :
          /\ self' = cut
          /\ hist' = Hist("overflow", layoutArgs.scrollOffset, FALSE, TRUE,
                          Undefined, Restart(cut), 0)
    /\ pc' = "idle"
    /\ layoutArgs' = NoArgs
    /\ passes' = 0
    /\ UNCHANGED <<seqLen, touch, call, node, clock>>

Next ==
    \/ TouchStart
    \/ TouchUpdate
    \/ TouchEnd
    \/ WheelUpdate
    \/ PhysicsStep
    \/ Commit
    \/ Relayout
    \/ StackOverflow

Spec == Init /\ [][Next]_vars

----------------------------------------------------------------------------
(* Properties of the scroll offset *)

HasFirst(this) == JsHasBit(this.scroll.boundsReached, Bounds.FIRST)
HasLast(this) == JsHasBit(this.scroll.boundsReached, Bounds.LAST)
RoundedPlusMove(this) == JsAdd(_getParticlePosition(this), this.scroll.moveOffset)

\* C1: from a state with no pending wheel delta and no boundary bit, after
\* wheel updates d1..dn with no commit in between, _getScrollOffset returns
\* the rounded particle position plus moveOffset plus d1 + ... + dn
\* (hist.wheelSum is that sum, hist.track says the run started so).
C1_WheelDeltasAccumulate ==
    hist.track =>
        _getScrollOffset(self).ret = JsAdd(RoundedPlusMove(self), Num(hist.wheelSum))

C1_Witness ==
    /\ hist.track
    /\ hist.op = "event"
    /\ hist.wheelSum # 0
    /\ self.scroll.scrollDelta = Num(hist.wheelSum)
    /\ IsNum(self.scroll.position) /\ self.scroll.position.n % particleRounding # 0

\* C2: when commit calls _getScrollOffset with a wheel delta that points
\* past a detected boundary (delta > 0 at FIRST, delta < 0 at LAST), the
\* delta is reset to 0 and the offset is the rounded particle position plus
\* moveOffset; any other delta is kept and added.
C2_DeltaPastBoundaryDiscarded ==
    [][ hist'.op = "commit" =>
            LET delta == self.scroll.scrollDelta
                past == \/ JsGt(delta, Num(0)) /\ HasFirst(self)
                        \/ JsLt(delta, Num(0)) /\ HasLast(self)
            IN  IF past
                THEN hist'.discard /\ hist'.offset = RoundedPlusMove(self)
                ELSE ~hist'.discard
                     /\ hist'.offset = JsAdd(RoundedPlusMove(self), delta) ]_vars

C2_Witness ==
    /\ hist.op = "commit"
    /\ hist.discard
    /\ IsNum(hist.offset)

\* C3 (as claimed): after every _integrateScrollDelta, FIRST in boundsReached
\* means the particle is exactly at 0, and LAST means it is at or after
\* lastScrollOffset.
C3_ClampedAfterIntegrate ==
    hist.ran =>
        /\ HasFirst(self) => self.scroll.position = Num(0)
        /\ HasLast(self) => JsGe(self.scroll.position, self.scroll.lastScrollOffset)

\* C3 (amended): after an _integrateScrollDelta that had a non-zero pending
\* wheel delta, FIRST in boundsReached (FIRST or BOTH) means the particle is
\* exactly at 0, and LAST alone means the particle is not before
\* lastScrollOffset.
C3_ClampedAfterIntegratingDelta ==
    (hist.ran /\ JsTruthy(hist.delta)) =>
        /\ HasFirst(self) => self.scroll.position = Num(0)
        /\ (HasLast(self) /\ ~HasFirst(self)) =>
                ~JsLt(self.scroll.position, self.scroll.lastScrollOffset)

C3_Witness ==
    /\ hist.ran /\ JsTruthy(hist.delta)
    /\ HasLast(self) /\ ~HasFirst(self)
    /\ self.scroll.position = self.scroll.lastScrollOffset

\* C7 (as claimed): moveOffset, scrollDelta, the particle position and the
\* effective scroll offset are always finite numbers.
C7_OffsetsAreNumbers ==
    /\ IsNum(self.scroll.moveOffset)
    /\ IsNum(self.scroll.scrollDelta)
    /\ IsNum(self.scroll.position)
    /\ IsNum(_getScrollOffset(self).ret)

\* C10 (as claimed): a commit runs a bounded number of _layout passes: the
\* recursion never reaches MaxPasses passes.
C10_CommitTerminates == passes < MaxPasses

----------------------------------------------------------------------------
(* _normalizeScrollOffset and _updateBounds as functions of a given window: *)
(* a second specification draws the window, the anchor, the offset and the  *)
(* particle position, then calls them. Lengths are tenths of a pixel; item  *)
(* k of a scenario is sequence node k + 1.                                  *)

\* The Specs of nodes first..last laid out from base, each of size sz; node
\* tsr (0: none) has an unresolved true size.
Window(first, last, base, sz, tsr) ==
    [k \in 1..(last - first + 1) |->
        MkSpec(first + k - 1, Num(base + (k - 1) * sz), sz, first + k - 1 = tsr)]

\* The same with alternating sizes: sz for the odd nodes, 40 px more for the
\* even ones.
RECURSIVE MixedWindow(_, _, _, _, _)
MixedWindow(first, last, base, sz, tsr) ==
    LET other == sz + 400
        mine  == IF first % 2 = 1 THEN sz ELSE other
    IN  IF first > last THEN << >>
        ELSE <<MkSpec(first, Num(base), mine, first = tsr)>>
             \o MixedWindow(first + 1, last, base + mine, sz, tsr)

NormBases == {-2200, -1200, -1000, -200, 0, 300, 1500, 2000}
NormOffsets == {-1200, -1000, -200, 0, 300, 1200, 1500, 2000}
NormItemSizes == {1000, 400}
NormPositions == {50}
NormSize == <<1000, 1500>>
\* lastScrollOffset as an earlier pass left it: never set, or set
NormLastOffsets == {Undefined, Num(700)}

\* What a call of _normalizeScrollOffset left: the returned offset, the
\* anchor, the particle position, and whether it threw.
Outcome(this, ret) ==
    [ret |-> ret, viewSequence |-> this.viewSequence,
     position |-> this.scroll.position, thrown |-> this.thrown]

NoOutcome == [ret |-> Undefined, viewSequence |-> 0, position |-> Undefined,
              thrown |-> FALSE]

InitNorm ==
    /\ seqLen \in 1..MaxItems
    /\ \E first \in 1..MaxItems, last \in 0..MaxItems, anchor \in 0..MaxItems,
          base \in NormBases, sz \in NormItemSizes, tsr \in {0, 2},
          e \in BOOLEAN, off \in NormOffsets, pos \in NormPositions,
          lso \in NormLastOffsets, mixed \in BOOLEAN :
          /\ first <= last + 1 /\ last <= seqLen /\ anchor <= seqLen
          /\ self = [NewScrollView(anchor) EXCEPT
                        !.target = IF mixed
                                   THEN MixedWindow(first, last, base, sz, tsr)
                                   ELSE Window(first, last, base, sz, tsr),
                        !.endReachedPrev = e,
                        !.scroll.position = Num(pos),
                        !.scroll.lastScrollOffset = lso]
          /\ call = [op |-> "input", size |-> NormSize, scrollOffset |-> Num(off),
                     viewSequence |-> anchor, position |-> Num(pos),
                     lastScrollOffset |-> lso,
                     first |-> NoOutcome, second |-> NoOutcome]
    /\ pc = "call"
    /\ layoutArgs = NoArgs
    /\ passes = 0
    /\ touch = FALSE
    /\ hist = Hist("new", Undefined, FALSE, FALSE, Undefined, FALSE, 0)
    /\ node = NoNode
    /\ clock = 0

Normalize ==
    /\ call.op = "input"
    /\ LET n == _normalizeScrollOffset(self, call.size, call.scrollOffset)
       IN  /\ self' = n.this
           /\ call' = [call EXCEPT !.op = "normalized",
                                   !.first = Outcome(n.this, n.ret)]
    /\ UNCHANGED <<seqLen, pc, layoutArgs, passes, touch, hist, node, clock>>

\* The second call gets the offset the first returned and the same window.
NormalizeAgain ==
    /\ call.op = "normalized"
    /\ LET n == _normalizeScrollOffset(self, call.size, call.first.ret)
       IN  /\ self' = n.this
           /\ call' = [call EXCEPT !.op = "renormalized",
                                   !.second = Outcome(n.this, n.ret)]
    /\ UNCHANGED <<seqLen, pc, layoutArgs, passes, touch, hist, node, clock>>

\* The rest of a layout pass up to the boundary bits.
UpdateBounds ==
    /\ call.op = "normalized"
    /\ ~self.thrown
    /\ self' = _updateBounds(self, call.size, call.first.ret)
    /\ call' = [call EXCEPT !.op = "bounded"]
    /\ UNCHANGED <<seqLen, pc, layoutArgs, passes, touch, hist, node, clock>>

NextNorm ==
    \/ Normalize
    \/ NormalizeAgain
    \/ UpdateBounds

SpecNorm == InitNorm /\ [][NextNorm]_vars

----------------------------------------------------------------------------
(* Properties of normalization and boundary detection *)

\* C4: a second _normalizeScrollOffset with the offset the first returned and
\* the same window returns the same offset and leaves the anchor and the
\* particle position as the first left them (and throws when the first did).
C4_NormalizeIdempotent ==
    call.op = "renormalized" => call.second = call.first

\* the first call promoted a next item and returned an offset >= 0, so the
\* second call takes the other branch
C4_Witness ==
    /\ call.op = "renormalized"
    /\ JsLt(call.scrollOffset, Num(0))
    /\ JsGe(call.first.ret, Num(0))
    /\ call.first.viewSequence > call.viewSequence
    /\ ~call.first.thrown

\* The sizes of the Specs of nodes from..(to - 1).
RECURSIVE PassedSize(_, _, _)
PassedSize(specs, from, to) ==
    IF from >= to THEN 0
    ELSE specs[_lookupSpecByViewSequence(specs, from)].size
         + PassedSize(specs, from + 1, to)

\* negative offset, the last Spec ends at or after the viewport end, and
\* the anchor has a next item
ForwardCase ==
    /\ call.viewSequence # 0
    /\ getNext(call.viewSequence) # 0
    /\ JsLt(call.scrollOffset, Num(0))
    /\ Len(self.target) > 0
    /\ JsGe(SpecEnd(self.target[Len(self.target)]), Num(call.size[direction + 1]))

\* the anchor's own Spec is in the window with a resolved size and ends
\* before 0
AnchorHidden ==
    LET idx == _lookupSpecByViewSequence(self.target, call.viewSequence)
    IN  /\ idx # 0
        /\ ~self.target[idx].trueSizeRequested
        /\ JsLt(SpecEnd(self.target[idx]), Num(0))

\* the anchor moved forward and the sizes of the passed items were added to
\* the offset and to the particle position
Promoted ==
    LET passed == PassedSize(self.target, call.viewSequence, call.first.viewSequence)
    IN  /\ call.first.viewSequence > call.viewSequence
        /\ call.first.ret = JsAdd(call.scrollOffset, Num(passed))
        /\ call.first.position = JsAdd(call.position, Num(passed))

Untouched ==
    /\ call.first.viewSequence = call.viewSequence
    /\ call.first.ret = call.scrollOffset
    /\ call.first.position = call.position

\* window [{offset 0, size 100}, {offset 100, size 100}] px, viewport 150 px,
\* anchor item 0, offset -120 px
ForwardScenario ==
    /\ self.target = Window(1, 2, 0, 1000, 0)
    /\ call.size[direction + 1] = 1500
    /\ call.viewSequence = 1
    /\ call.scrollOffset = Num(-1200)

\* C5 (as claimed): in the forward case the next item is promoted; in the
\* scenario the result is anchor item 1, offset -20 px, particle +100 px.
C5_ForwardPromotesNext ==
    call.op = "normalized" =>
        /\ ForwardCase => Promoted
        /\ ForwardScenario =>
                /\ call.first.viewSequence = 2
                /\ call.first.ret = Num(-200)
                /\ call.first.position = JsAdd(call.position, Num(1000))

\* C5 (amended): in the forward case next items are promoted exactly when
\* the anchor's own Spec is in the window, resolved, and ends before 0;
\* otherwise anchor, offset and particle stay. In the scenario the anchor's
\* Spec ends at 100 px >= 0, so the result is anchor item 0, offset -120 px
\* and the particle unmoved.
C5_ForwardPromotesHiddenAnchor ==
    (call.op = "normalized" /\ ForwardCase) =>
        /\ IF AnchorHidden THEN Promoted ELSE Untouched
        /\ ForwardScenario =>
                /\ call.first.viewSequence = 1
                /\ call.first.ret = Num(-1200)
                /\ call.first.position = call.position

\* window [{-120, 100}, {-20, 100}, {80, 100}] px, anchor item 0, offset
\* -120 px: item 1 becomes the anchor, offset -20 px, particle +100 px
C5_Witness ==
    /\ call.op = "normalized"
    /\ ForwardCase /\ AnchorHidden
    /\ self.target = Window(1, 3, -1200, 1000, 0)
    /\ call.viewSequence = 1
    /\ call.scrollOffset = Num(-1200)
    /\ call.first.viewSequence = 2
    /\ call.first.ret = Num(-200)
    /\ call.first.position = JsAdd(call.position, Num(1000))

\* C6: when the anchor is the first item and the start of the sequence is
\* reached, its Spec (the first of the window) starts at or after 0, the
\* offset is >= 0 and the last Spec ends after the viewport end, then
\* normalization leaves the anchor and the boundary bits are FIRST exactly.
C6_FirstOnly ==
    ( /\ call.op = "bounded"
      /\ call.viewSequence = 1
      /\ self.endReachedPrev
      /\ JsGe(call.scrollOffset, Num(0))
      /\ Len(self.target) > 0
      /\ self.target[1].renderNode = 1
      /\ JsGe(self.target[1].offset, Num(0))
      /\ JsGt(SpecEnd(self.target[Len(self.target)]), Num(call.size[direction + 1])) )
    => /\ self.viewSequence = 1
       /\ self.scroll.boundsReached = Num(Bounds.FIRST)

\* window [{0, 100}, {100, 100}] px of a two-item sequence, viewport 150 px
C6_Witness ==
    /\ call.op = "bounded"
    /\ seqLen = 2
    /\ call.viewSequence = 1
    /\ self.endReachedPrev
    /\ call.scrollOffset = Num(0)
    /\ self.target = Window(1, 2, 0, 1000, 0)
    /\ call.size[direction + 1] = 1500
    /\ self.viewSequence = 1
    /\ self.scroll.boundsReached = Num(Bounds.FIRST)

----------------------------------------------------------------------------
(* LayoutNode. A channel value is undefined, a number, or an array with an  *)
(* identity (ref) and its elements. Numbers are in units of 1 / Unit.       *)

Unit == 64
TweenSteps == 2
MaxClock == 2

Arr(ref, v) == [k |-> "arr", n |-> 0, ref |-> ref, v |-> v]
IsArr(a) == a.k = "arr"
IsUndefined(a) == a.k = "undef"

\* a === b
ChanStrictEq(a, b) ==
    IF IsArr(a) /\ IsArr(b) THEN a.ref = b.ref
    ELSE IF IsArr(a) \/ IsArr(b) THEN FALSE
    ELSE JsStrictEq(a, b)

\* a[i] (i from 0)
ChanIndex(a, i) ==
    IF IsArr(a) /\ i < Len(a.v) THEN a.v[i + 1] ELSE Undefined

Properties == <<"size", "origin", "align", "skew", "rotate", "scale", "translate",
                "opacity">>

propertiesWithDefaults ==
    [ size |-> Arr("default", <<Undefined, Undefined>>),
      origin |-> Arr("default", <<Num(0), Num(0)>>),
      align |-> Arr("default", <<Num(0), Num(0)>>),
      skew |-> Arr("default", <<Num(0), Num(0), Num(0)>>),
      rotate |-> Arr("default", <<Num(0), Num(0), Num(0)>>),
      scale |-> Arr("default", <<Num(Unit), Num(Unit), Num(Unit)>>),
      translate |-> Arr("default", <<Num(0), Num(0), Num(0)>>),
      opacity |-> Arr("default", <<Num(Unit)>>) ]

\* A set; id "undefined" is no set. transition: the set has a transition;
\* hide: set.hide is truthy.
NoSet == [id |-> "undefined"]
MkSet(id, size, scale, translate, opacity, transition, hide) ==
    [ id |-> id, size |-> size, origin |-> Undefined, align |-> Undefined,
      skew |-> Undefined, rotate |-> Undefined, scale |-> scale,
      translate |-> translate, opacity |-> opacity,
      transition |-> transition, hide |-> hide, scrollLength |-> Undefined ]

\* Transitionable (famous): created at 0 and sent to 1 over TweenSteps ticks
\* of the clock; action is its pending action (isActive). get() at or after
\* the end returns 1 and ends the action; the completion callback passed by
\* LayoutNode is called without a receiver and changes nothing of the node.
NoTransitionable == [exists |-> FALSE, start |-> 0, action |-> FALSE]
NewTransitionable(now) == [exists |-> TRUE, start |-> now, action |-> TRUE]

TransitionableGet(tr, now) ==
    LET elapsed == now - tr.start
        value == IF ~tr.action \/ elapsed >= TweenSteps THEN TweenSteps ELSE elapsed
    IN  [tr |-> [tr EXCEPT !.action = @ /\ value < TweenSteps], value |-> value]

\* from + (to - from) * tweenValue, tweenValue = k / TweenSteps
Tween(from, to, k) ==
    IF IsNum(from) /\ IsNum(to)
    THEN Num(from.n + ((to.n - from.n) * k) \div TweenSteps)
    ELSE NaN

NoSpecFields ==
    [ renderNode |-> 0, opacity |-> Undefined, size |-> Undefined,
      origin |-> Undefined, align |-> Undefined, hide |-> FALSE,
      transform |-> Undefined, removed |-> "undefined" ]

NewLayoutNode(renderNode) ==
    [ renderNode |-> renderNode,
      _spec |-> [NoSpecFields EXCEPT !.renderNode = renderNode],
      _specModified |-> TRUE,
      _invalidated |-> FALSE,
      _removing |-> FALSE,
      trueSizeRequested |-> "undefined",
      _originalSet |-> NoSet,
      _targetSet |-> NoSet,
      _lastSet |-> NoSet,
      _transitionable |-> NoTransitionable,
      scrollLength |-> Undefined,
      thrown |-> FALSE ]

reset(this) ==
    [this EXCEPT !._invalidated = FALSE, !.trueSizeRequested = "false"]

remove(this) == [this EXCEPT !._removing = TRUE]

setRenderNode(this, renderNode) ==
    [this EXCEPT !.renderNode = renderNode, !._spec.renderNode = renderNode]

\* undefined render node is 0; no code of the file gives a node a
\* _viewSequence, which destroy clears.
destroy(this) == [this EXCEPT !.renderNode = 0, !._spec.renderNode = 0]

\* A spec handed to setSpec.
MkSpecArg(id, size, transform, opacity, hide) ==
    [ id |-> id, align |-> Undefined, origin |-> Undefined, size |-> size,
      hide |-> hide, transform |-> transform, opacity |-> opacity ]

\* The fields are copied in the order align, origin, size, hide, transform,
\* opacity; the elements of an array are written into the array the
\* committed spec holds, and the write throws when it holds none.
setSpec(this, spec) ==
    LET m == [this EXCEPT !._specModified = TRUE]
        throws(name) == ~IsUndefined(spec[name]) /\ IsUndefined(this._spec[name])
        copied(name) ==
            IF IsArr(spec[name])
            THEN [this._spec[name] EXCEPT
                    !.v = <<ChanIndex(spec[name], 0), ChanIndex(spec[name], 1)>>]
            ELSE Undefined
        a1 == [m EXCEPT !._spec.align = copied("align")]
        a2 == [a1 EXCEPT !._spec.origin = copied("origin")]
        a3 == [a2 EXCEPT !._spec.size = copied("size"), !._spec.hide = spec.hide]
    IN  IF throws("align") THEN [m EXCEPT !.thrown = TRUE]
        ELSE IF throws("origin") THEN [a1 EXCEPT !.thrown = TRUE]
        ELSE IF throws("size") THEN [a2 EXCEPT !.thrown = TRUE]
        ELSE IF throws("transform") THEN [a3 EXCEPT !.thrown = TRUE]
        ELSE [a3 EXCEPT !._spec.transform = spec.transform,
                        !._spec.opacity = spec.opacity]

\* Transform.build / Transform.translate (famous): the matrix, kept as the
\* components it is built from.
TransformBuild(translate, skew, scale, rotate) ==
    [k |-> "matrix", n |-> 0, translate |-> translate, skew |-> skew,
     scale |-> scale, rotate |-> rotate]

\* x || d for a channel value (arrays are truthy)
OrDefault(x, d) == IF IsArr(x) THEN x.v ELSE d

_modifySpecFromSet(spec, set) ==
    LET easy(name) ==
            IF IsArr(set[name])
            THEN LET d == propertiesWithDefaults[name]
                     at(i) == IF IsUndefined(ChanIndex(set[name], i))
                              THEN ChanIndex(d, i)
                              ELSE ChanIndex(set[name], i)
                 IN  Arr("spec", <<at(0), at(1)>>)
            ELSE Undefined
        zero == <<Num(0), Num(0), Num(0)>>
        one == <<Num(Unit), Num(Unit), Num(Unit)>>
    IN  [spec EXCEPT
            !.opacity = set.opacity,
            !.size = easy("size"),
            !.origin = easy("origin"),
            !.align = easy("align"),
            !.hide = set.hide,
            !.transform =
                IF IsArr(set.skew) \/ IsArr(set.rotate) \/ IsArr(set.scale)
                THEN TransformBuild(OrDefault(set.translate, zero),
                                    OrDefault(set.skew, zero),
                                    OrDefault(set.scale, one),
                                    OrDefault(set.rotate, zero))
                ELSE IF IsArr(set.translate)
                THEN TransformBuild(<<ChanIndex(set.translate, 0),
                                      ChanIndex(set.translate, 1),
                                      ChanIndex(set.translate, 2)>>,
                                    zero, one, zero)
                ELSE Undefined]

\* Returns the node (the transitionable may have ended, _specModified may be
\* set) and the set; thrown when there is no transitionable to read.
_interpolateSet(this, now) ==
    LET g == TransitionableGet(this._transitionable, now)
        got == [this EXCEPT !._transitionable = g.tr]
        tweenToSet == this._lastSet
        tweenFromSet == this._originalSet
        tweenFrom(p) == IF ~IsUndefined(tweenFromSet[p])
                        THEN tweenFromSet[p] ELSE propertiesWithDefaults[p]
        tweenTo(p) == IF ~IsUndefined(tweenToSet[p])
                      THEN tweenToSet[p] ELSE tweenFrom(p)
        asArray(x) == IF IsArr(x) THEN x ELSE Arr("boxed", <<x>>)
        tweenedSet(p) ==
            Arr("tween",
                [d \in 1..Len(propertiesWithDefaults[p].v) |->
                    Tween(ChanIndex(asArray(tweenFrom(p)), d - 1),
                          ChanIndex(asArray(tweenTo(p)), d - 1),
                          g.value)])
        resulting(p) == IF ChanStrictEq(tweenTo(p), tweenFrom(p))
                        THEN tweenTo(p) ELSE tweenedSet(p)
        modified == \E i \in 1..Len(Properties) :
                        ~ChanStrictEq(tweenTo(Properties[i]), tweenFrom(Properties[i]))
        resultingSet ==
            [ id |-> "tween",
              size |-> resulting("size"), origin |-> resulting("origin"),
              align |-> resulting("align"), skew |-> resulting("skew"),
              rotate |-> resulting("rotate"), scale |-> resulting("scale"),
              translate |-> resulting("translate"),
              opacity |-> ChanIndex(resulting("opacity"), 0),
              transition |-> FALSE, hide |-> FALSE, scrollLength |-> Undefined ]
    IN  IF ~this._transitionable.exists
        THEN [this |-> [this EXCEPT !.thrown = TRUE], ret |-> NoSet]
        ELSE IF this._originalSet = NoSet \/ g.value = TweenSteps
        THEN [this |-> got, ret |-> this._lastSet]
        ELSE IF this._lastSet = NoSet
        THEN [this |-> [got EXCEPT !.thrown = TRUE], ret |-> NoSet]
        ELSE [this |-> [got EXCEPT !._specModified = @ \/ modified],
              ret |-> resultingSet]

\* Returns the node, the spec, and whether the spec is a new object.
_getFinalSpec(this) ==
    LET retired == IF ~this._transitionable.action
                   THEN [this EXCEPT !._transitionable = NoTransitionable]
                   ELSE this
        i == _interpolateSet(retired, clock)
        spec == [NoSpecFields EXCEPT !.renderNode = this._spec.renderNode]
    IN  IF this._transitionable.exists /\ ~this._spec.hide
        THEN IF i.this.thrown \/ i.ret = NoSet
             THEN [this |-> [i.this EXCEPT !.thrown = TRUE], spec |-> spec,
                   fresh |-> TRUE]
             ELSE [this |-> i.this, spec |-> _modifySpecFromSet(spec, i.ret),
                   fresh |-> TRUE]
        ELSE [this |-> this, spec |-> this._spec, fresh |-> FALSE]

getSpec(this) ==
    _getFinalSpec([this EXCEPT
                    !._specModified = FALSE,
                    !._spec.removed = IF this._invalidated THEN "false" ELSE "true"])

set(this, s) ==
    LET t1 == IF s.transition
              THEN [this EXCEPT
                      !._targetSet = s,
                      !._transitionable = IF ~@.exists
                                          THEN NewTransitionable(clock) ELSE @]
              ELSE this
        t2 == IF ~t1._transitionable.exists THEN [t1 EXCEPT !._originalSet = s] ELSE t1
    IN  [t2 EXCEPT
            !._lastSet = s,
            !._invalidated = TRUE,
            !._specModified = TRUE,
            !._removing = FALSE,
            !._spec = _modifySpecFromSet(@, s),
            !.scrollLength = s.scrollLength]

transition(this) ==
    LET i == _interpolateSet(this, clock)
    IN  IF this._transitionable.exists
        THEN [i.this EXCEPT
                !._originalSet = i.ret,
                !._transitionable = NewTransitionable(clock)]
        ELSE [this EXCEPT
                !._originalSet = this._lastSet,
                !._transitionable = NewTransitionable(clock)]

\* The sets the layout function hands to a node.
SetCatalogue ==
    { MkSet("A", Arr("A", <<Num(128), Num(128)>>), Undefined,
            Arr("A", <<Num(0), Num(0), Num(0)>>), Num(Unit), FALSE, FALSE),
      MkSet("B", Arr("B", <<Num(128), Num(256)>>), Undefined,
            Arr("B", <<Num(0), Num(256), Num(0)>>), Num(32), TRUE, FALSE),
      MkSet("C", Arr("C", <<Num(128), Num(128)>>), Undefined,
            Arr("C", <<Num(0), Num(512), Num(0)>>), Num(Unit), TRUE, FALSE),
      MkSet("D", Undefined, Arr("D", <<Num(128), Num(Unit), Num(Unit)>>),
            Undefined, Undefined, FALSE, TRUE) }

\* The specs handed to setSpec: the empty spec and one with a size and an
\* opacity.
SpecCatalogue ==
    { MkSpecArg("E", Undefined, Undefined, Undefined, FALSE),
      MkSpecArg("F", Arr("F", <<Num(128), Num(256)>>), Undefined, Num(32), FALSE) }

\* The render nodes handed to setRenderNode: the one the node was built with,
\* which a destroyed node is given back.
RenderNodes == {1}

InitNode ==
    /\ node = NewLayoutNode(1)
    /\ clock = 0
    /\ seqLen = 1
    /\ self = NewScrollView(1)
    /\ pc = "node"
    /\ layoutArgs = NoArgs
    /\ passes = 0
    /\ touch = FALSE
    /\ hist = Hist("new", Undefined, FALSE, FALSE, Undefined, FALSE, 0)
    /\ call = NoCall

\* No call follows one that threw.
Alive == ~node.thrown

NodeSet ==
    /\ Alive
    /\ \E s \in SetCatalogue : node' = set(node, s)
    /\ UNCHANGED <<self, seqLen, pc, layoutArgs, passes, touch, hist, call, clock>>

NodeTransition ==
    /\ Alive
    /\ node' = transition(node)
    /\ UNCHANGED <<self, seqLen, pc, layoutArgs, passes, touch, hist, call, clock>>

NodeGetSpec ==
    /\ Alive
    /\ node' = getSpec(node).this
    /\ UNCHANGED <<self, seqLen, pc, layoutArgs, passes, touch, hist, call, clock>>

NodeReset ==
    /\ Alive
    /\ node' = reset(node)
    /\ UNCHANGED <<self, seqLen, pc, layoutArgs, passes, touch, hist, call, clock>>

NodeRemove ==
    /\ Alive
    /\ node' = remove(node)
    /\ UNCHANGED <<self, seqLen, pc, layoutArgs, passes, touch, hist, call, clock>>

NodeSetSpec ==
    /\ Alive
    /\ \E spec \in SpecCatalogue : node' = setSpec(node, spec)
    /\ UNCHANGED <<self, seqLen, pc, layoutArgs, passes, touch, hist, call, clock>>

NodeSetRenderNode ==
    /\ Alive
    /\ \E r \in RenderNodes : node' = setRenderNode(node, r)
    /\ UNCHANGED <<self, seqLen, pc, layoutArgs, passes, touch, hist, call, clock>>

NodeDestroy ==
    /\ Alive
    /\ node' = destroy(node)
    /\ UNCHANGED <<self, seqLen, pc, layoutArgs, passes, touch, hist, call, clock>>

Tick ==
    /\ clock < MaxClock
    /\ clock' = clock + 1
    /\ UNCHANGED <<self, seqLen, pc, layoutArgs, passes, touch, hist, call, node>>

NextNode ==
    \/ NodeSet
    \/ NodeTransition
    \/ NodeGetSpec
    \/ NodeReset
    \/ NodeRemove
    \/ NodeSetSpec
    \/ NodeSetRenderNode
    \/ NodeDestroy
    \/ Tick

SpecNode == InitNode /\ [][NextNode]_vars

----------------------------------------------------------------------------
(* Properties of the interpolation *)

\* The animatable channels of the spec a getSpec call returns now.
Reading(this) ==
    LET spec == getSpec(this).spec
    IN  [opacity |-> spec.opacity, size |-> spec.size, origin |-> spec.origin,
         align |-> spec.align, transform |-> spec.transform]

\* An interpolation from a recorded start set to a target set is running.
Interpolating(this) ==
    /\ this._transitionable.exists /\ this._transitionable.action
    /\ this._originalSet # NoSet /\ this._lastSet # NoSet
    /\ ~this._spec.hide
    /\ ~this.thrown

Progress(this) == TransitionableGet(this._transitionable, clock).value

RetargetBySet ==
    \E s \in SetCatalogue :
        s.transition /\ s # node._lastSet /\ node' = set(node, s)

RetargetByTransition == node' = transition(node)

\* C8 (as claimed): when an interpolation at progress strictly between 0 and
\* 1 is retargeted, by set() with a transition and another target set or by
\* transition(), getSpec reads the same channel values right after the
\* retarget as right before it.
C8_RetargetContinuous ==
    [][ ( /\ Interpolating(node)
          /\ Progress(node) > 0 /\ Progress(node) < TweenSteps
          /\ clock' = clock
          /\ (RetargetBySet \/ RetargetByTransition) )
        => Reading(node') = Reading(node) ]_vars

\* a and b hold the same numbers (arrays element by element)
SameValue(a, b) ==
    IF IsArr(a) /\ IsArr(b) THEN a.v = b.v
    ELSE ~IsArr(a) /\ ~IsArr(b) /\ a = b

\* every element of r lies between the elements of a and b
Between(r, a, b) ==
    LET lies(x, y, z) == /\ IsNum(x) /\ IsNum(y) /\ IsNum(z)
                         /\ \/ y.n <= x.n /\ x.n <= z.n
                            \/ z.n <= x.n /\ x.n <= y.n
    IN  IF IsArr(a) /\ IsArr(b)
        THEN /\ IsArr(r) /\ Len(r.v) = Len(a.v)
             /\ \A d \in 1..Len(a.v) : lies(r.v[d], a.v[d], b.v[d])
        ELSE ~IsArr(r) /\ ~IsArr(a) /\ ~IsArr(b) /\ lies(r, a, b)

\* C9 (as claimed): while an interpolation from start set S to target set T
\* runs, on every channel that S and T define the set _interpolateSet
\* produces equals S at progress 0, equals T at progress 1, and lies between
\* S and T in between.
C9_InterpolationEndpoints ==
    Interpolating(node) =>
        LET r == _interpolateSet(node, clock).ret
            S == node._originalSet
            T == node._lastSet
        IN  \A i \in 1..Len(Properties) :
                LET p == Properties[i]
                IN  (~IsUndefined(S[p]) /\ ~IsUndefined(T[p])) =>
                        /\ Progress(node) = 0 => SameValue(r[p], S[p])
                        /\ Progress(node) = TweenSteps => SameValue(r[p], T[p])
                        /\ Between(r[p], S[p], T[p])

----------------------------------------------------------------------------
(* Properties of commit, the gestures and the edge spring *)

\* C11 (as claimed): whenever commit skips _layout, the Specs it renders are
\* the layout of the current effective offset relative to the current
\* anchor.
C11_IdleRendersCurrentLayout ==
    (hist.op = "commit" /\ ~hist.ran) =>
        self.target = FlowLayout(self, self.contextSizeCache, hist.offset).target

\* C12 (as claimed): a touch end adds moveOffset to the particle position,
\* sets moveOffset to 0, clears moveStart and leaves position + moveOffset
\* as it was; the velocity stays or becomes the event's; and the commit that
\* follows lays out with the effective offset that holds the whole drag, so
\* the Specs it renders are the layout of that offset.
C12_TouchEndReleasesDrag ==
    [][ /\ hist'.op = "end" =>
            /\ self'.scroll.position =
                    JsAdd(self.scroll.position, self.scroll.moveOffset)
            /\ self'.scroll.moveOffset = Num(0)
            /\ self'.scroll.moveStart = Undefined
            /\ JsAdd(self'.scroll.position, self'.scroll.moveOffset) =
                    JsAdd(self.scroll.position, self.scroll.moveOffset)
            /\ self'.scroll.velocity \in
                    {self.scroll.velocity}
                    \cup {JsAxis(v, direction) : v \in Samples(Velocities)}
        /\ (hist.op = "end" /\ hist'.op = "commit") =>
            /\ hist'.offset = JsAdd(_getParticlePosition(self),
                                    _getScrollOffset(self).this.scroll.scrollDelta)
            /\ \/ hist'.ran
               \/ self'.target =
                    FlowLayout(self', self'.contextSizeCache, hist'.offset).target
      ]_vars

----------------------------------------------------------------------------
(* The edge spring as a function of its target: _updateEdgeSpring is called
   twice with the same target on every state the constructor and earlier
   calls can leave *)

EdgeBound == 3

EdgeValues == {Undefined, NaN} \cup {Num(n) : n \in -EdgeBound..EdgeBound}

\* Only _updateEdgeSpring writes the three fields: while no target is set the
\* force is detached and the vector keeps the last target (0 at first);
\* while a target is set the force is attached and the vector holds it.
InitEdge ==
    /\ seqLen = 1
    /\ \E cur \in EdgeValues, vec \in EdgeValues \ {Undefined},
          target \in EdgeValues :
          /\ self = [NewScrollView(1) EXCEPT
                        !.scroll.edgeSpringOffset = cur,
                        !.scroll.edgeSpringForceId = (cur # Undefined),
                        !.scroll.edgeSpringVector =
                            IF cur = Undefined THEN vec ELSE cur]
          /\ cur # Undefined => vec = cur
          /\ call = [op |-> "input", target |-> target, before |-> self,
                     first |-> self, second |-> self]
    /\ pc = "edge"
    /\ layoutArgs = NoArgs
    /\ passes = 0
    /\ touch = FALSE
    /\ hist = Hist("new", Undefined, FALSE, FALSE, Undefined, FALSE, 0)
    /\ node = NoNode
    /\ clock = 0

EdgeSpring ==
    /\ call.op = "input"
    /\ self' = _updateEdgeSpring(self, call.target)
    /\ call' = [call EXCEPT !.op = "sprung", !.first = self']
    /\ UNCHANGED <<seqLen, pc, layoutArgs, passes, touch, hist, node, clock>>

EdgeSpringAgain ==
    /\ call.op = "sprung"
    /\ self' = _updateEdgeSpring(self, call.target)
    /\ call' = [call EXCEPT !.op = "resprung", !.second = self']
    /\ UNCHANGED <<seqLen, pc, layoutArgs, passes, touch, hist, node, clock>>

NextEdge ==
    \/ EdgeSpring
    \/ EdgeSpringAgain

SpecEdge == InitEdge /\ [][NextEdge]_vars

\* C13: a call of _updateEdgeSpring with the target the ScrollView already
\* has (undefined included) leaves edgeSpringOffset, the anchor vector and
\* the attachment of the force (and every other field) as they were, and a
\* second call with the same target leaves the state the first call left.
C13_EdgeSpringIdempotent ==
    /\ (call.op \in {"sprung", "resprung"}
            /\ call.target = call.before.scroll.edgeSpringOffset)
        => call.first = call.before
    /\ call.op = "resprung" => call.second = call.first

\* the first call attached the force and moved the anchor, the second call
\* found the target unchanged
C13_Witness ==
    /\ call.op = "resprung"
    /\ call.target.k = "num"
    /\ ~call.before.scroll.edgeSpringForceId
    /\ call.first.scroll.edgeSpringForceId
    /\ call.first.scroll.edgeSpringVector = call.target
    /\ call.first.scroll.edgeSpringVector # call.before.scroll.edgeSpringVector
    /\ call.second = call.first

----------------------------------------------------------------------------
(* Properties of normalization and boundary detection on insufficient data *)

\* C14 (as claimed): with an empty window or a null anchor, for every
\* offset, _normalizeScrollOffset ends without an error, returns the offset
\* it was given and leaves the anchor and the particle position.
C14_NormalizeGraceful ==
    (call.op = "normalized" /\ (Len(self.target) = 0 \/ call.viewSequence = 0))
        => call.first = [ret |-> call.scrollOffset,
                         viewSequence |-> call.viewSequence,
                         position |-> call.position,
                         thrown |-> FALSE]

\* C15 (as claimed): for every anchor (null included) and every window
\* (empty included), _calculateBoundsReached ends without an error and
\* leaves boundsReached among NONE, FIRST, LAST and BOTH.
C15_BoundsNeverFail ==
    call.op = "bounded" =>
        /\ ~self.thrown
        /\ self.scroll.boundsReached \in
                {Num(Bounds.NONE), Num(Bounds.FIRST),
                 Num(Bounds.LAST), Num(Bounds.BOTH)}

\* An item from the anchor to the end of the sequence has no Spec in the
\* window, or a Spec with trueSizeRequested.
Unresolved(specs, anchor) ==
    /\ anchor # 0
    /\ \E n \in anchor..seqLen :
          LET idx == _lookupSpecByViewSequence(specs, n)
          IN  idx = 0 \/ specs[idx].trueSizeRequested

\* C16: when an item from the anchor to the end of the sequence has no Spec
\* in the window or has a Spec with trueSizeRequested, the pass leaves
\* boundsReached without LAST and lastScrollOffset as it was.
C16_LastDeferred ==
    (call.op = "bounded" /\ Unresolved(self.target, self.viewSequence)) =>
        /\ ~self.thrown
        /\ ~HasLast(self)
        /\ self.scroll.lastScrollOffset = call.lastScrollOffset

\* every item from the anchor on has a Spec and the last one ends inside the
\* viewport, but one size is unresolved; an earlier pass had set
\* lastScrollOffset
C16_Witness ==
    /\ call.op = "bounded"
    /\ self.viewSequence # 0
    /\ \A n \in self.viewSequence..seqLen :
          _lookupSpecByViewSequence(self.target, n) # 0
    /\ \E i \in 1..Len(self.target) :
          /\ self.target[i].trueSizeRequested
          /\ self.target[i].renderNode >= self.viewSequence
    /\ ~JsGt(SpecEnd(self.target[Len(self.target)]), Num(call.size[direction + 1]))
    /\ call.lastScrollOffset = Num(700)
    /\ self.scroll.lastScrollOffset = Num(700)
    /\ ~HasLast(self)

----------------------------------------------------------------------------
(* Invariants of the state a layout pass leaves *)

\* A layout pass has just run to its end.
AfterPass == hist.op \in {"commit", "relayout"} /\ hist.ran /\ ~self.thrown

\* The anchor is the first item and its Spec starts at or after 0.
AnchorAtStart(this) ==
    LET idx == _lookupSpecByViewSequence(this.target, this.viewSequence)
    IN  /\ this.viewSequence = 1
        /\ idx # 0
        /\ JsGe(this.target[idx].offset, Num(0))

\* C17 (as claimed): after every layout pass, if boundsReached includes
\* FIRST then the anchor is the first item of the sequence, the start of the
\* sequence is reached, and the anchor's Spec starts at or after 0.
C17_FirstMeansStart ==
    (AfterPass /\ HasFirst(self)) =>
        /\ self.endReachedPrev
        /\ AnchorAtStart(self)

\* C18 (as claimed): after every layout pass, if boundsReached includes LAST
\* then the Spec of the last item of the sequence ends at or before the
\* viewport size, and lastScrollOffset is (viewport size - that end) + the
\* normalized offset of the pass.
C18_LastMeansEnd ==
    [][ (hist'.op \in {"commit", "relayout"} /\ hist'.ran /\ ~self'.thrown
            /\ HasLast(self')) =>
            LET size == self'.contextSizeCache
                norm == _normalizeScrollOffset(
                            FlowLayout(self, size, hist'.offset), size, hist'.offset)
                idx  == _lookupSpecByViewSequence(self'.target, seqLen)
            IN  /\ idx # 0
                /\ JsGe(Num(size[direction + 1]), SpecEnd(self'.target[idx]))
                /\ self'.scroll.lastScrollOffset =
                        JsAdd(JsSub(Num(size[direction + 1]),
                                    SpecEnd(self'.target[idx])), norm.ret)
      ]_vars

\* C19: after every layout pass the spring force is attached exactly when
\* edgeSpringOffset is defined; edgeSpringOffset is 0 when boundsReached
\* includes FIRST, lastScrollOffset when boundsReached is LAST only, and
\* undefined when boundsReached is NONE; while the force is attached the
\* spring's anchor vector holds edgeSpringOffset.
C19_EdgeSpringReflectsBounds ==
    AfterPass =>
        /\ self.scroll.edgeSpringForceId <=>
                (self.scroll.edgeSpringOffset # Undefined)
        /\ HasFirst(self) => self.scroll.edgeSpringOffset = Num(0)
        /\ (HasLast(self) /\ ~HasFirst(self)) =>
                self.scroll.edgeSpringOffset = self.scroll.lastScrollOffset
        /\ self.scroll.boundsReached = Num(Bounds.NONE) =>
                self.scroll.edgeSpringOffset = Undefined
        /\ self.scroll.edgeSpringForceId =>
                self.scroll.edgeSpringVector = self.scroll.edgeSpringOffset

\* the end of a sequence longer than the viewport: the spring is attached
\* and pulls to lastScrollOffset, which is not 0
C19_Witness ==
    /\ AfterPass
    /\ self.scroll.boundsReached = Num(Bounds.LAST)
    /\ IsNum(self.scroll.lastScrollOffset)
    /\ self.scroll.lastScrollOffset # Num(0)
    /\ self.scroll.edgeSpringForceId
    /\ self.scroll.edgeSpringOffset = self.scroll.lastScrollOffset
    /\ self.scroll.edgeSpringVector = self.scroll.lastScrollOffset

----------------------------------------------------------------------------
(* Frame conditions of the gesture callbacks *)

\* that differs from this at most in moveStart, moveOffset, scrollDelta and
\* the particle's velocity and position: the anchor, boundsReached,
\* lastScrollOffset, the edge spring, the caches, the dirty flag and the
\* Spec window are the same.
GestureFrame(this, that) ==
    that = [this EXCEPT
                !.scroll.moveStart = that.scroll.moveStart,
                !.scroll.moveOffset = that.scroll.moveOffset,
                !.scroll.scrollDelta = that.scroll.scrollDelta,
                !.scroll.velocity = that.scroll.velocity,
                !.scroll.position = that.scroll.position]

\* A wheel branch keeps the frame of a gesture and the particle's position.
WheelBranchFrame(this, that) ==
    GestureFrame(this, that) /\ that.scroll.position = this.scroll.position

\* C20: a gesture callback (touch start, update and end, wheel update) runs
\* no layout pass and changes only moveStart, moveOffset, scrollDelta and
\* the particle's velocity, and the particle's position in a touch end
\* only; the wheel branches of _moveStart and _moveEnd, which no event
\* reaches, do the same from every state a wheel update arrives in.
C20_GesturesOnlyTouchPending ==
    [][ /\ hist'.op \in {"event", "end"} =>
            /\ GestureFrame(self, self')
            /\ pc' = pc /\ layoutArgs' = layoutArgs /\ ~hist'.ran
            /\ self'.scroll.position # self.scroll.position => hist'.op = "end"
        /\ (hist'.op = "event"
                /\ self'.scroll.scrollDelta # self.scroll.scrollDelta) =>
            \A d \in Samples(WheelDeltas) :
                /\ WheelBranchFrame(self, _moveStart(self, ScrollSync, [delta |-> d]))
                /\ WheelBranchFrame(self, _moveEnd(self, ScrollSync, [delta |-> d]))
      ]_vars

\* a touch end after a layout pass that reached a boundary: the drag moved
\* the particle, and the window, the bits and the spring are still there
C20_Witness ==
    /\ hist.op = "end"
    /\ Len(self.target) > 0
    /\ self.scroll.boundsReached = Num(Bounds.LAST)
    /\ self.scroll.edgeSpringForceId
    /\ IsNum(self.scrollOffsetCache)
    /\ IsNum(self.scroll.position)
    /\ self.scroll.position # Num(0)
    /\ self.scroll.moveOffset = Num(0)

----------------------------------------------------------------------------
(* Normalization of a fully resolved window *)

\* Every item of the sequence has a Spec with a resolved size, and the Spec
\* of the anchor the call started from is at the offset of the call (Window
\* lays the Specs out contiguously).
FullyResolved ==
    /\ call.viewSequence # 0
    /\ \A n \in 1..seqLen :
          LET idx == _lookupSpecByViewSequence(self.target, n)
          IN  idx # 0 /\ ~self.target[idx].trueSizeRequested
    /\ self.target[_lookupSpecByViewSequence(self.target, call.viewSequence)].offset
            = call.scrollOffset

\* The Spec of node n is at least partially visible: a part of its extent
\* lies inside the viewport.
PartlyVisible(specs, n, size) ==
    LET spec == specs[_lookupSpecByViewSequence(specs, n)]
    IN  /\ JsGt(SpecEnd(spec), Num(0))
        /\ JsGt(Num(size[direction + 1]), spec.offset)

\* The extent of the Spec of node n meets the viewport [0, size], both taken
\* with their edges: an end at exactly 0 counts, as in the tests of lines
\* 277 and 316.
Visible(specs, n, size) ==
    LET spec == specs[_lookupSpecByViewSequence(specs, n)]
    IN  /\ JsGe(SpecEnd(spec), Num(0))
        /\ JsGe(Num(size[direction + 1]), spec.offset)

\* The call took the forward branch and returned at once because the last
\* Spec ends before the viewport size (lines 297-299).
EndReachedReturn ==
    /\ JsLt(call.scrollOffset, Num(0))
    /\ JsLt(SpecEnd(self.target[Len(self.target)]), Num(call.size[direction + 1]))

\* The first item of the sequence starts after the viewport size: the whole
\* sequence lies beyond the viewport.
BeyondViewport ==
    JsGt(self.target[_lookupSpecByViewSequence(self.target, 1)].offset,
         Num(call.size[direction + 1]))

\* C21 (as claimed): after normalization of a fully resolved window the
\* anchor is at least partially visible and no item before the anchor is,
\* for every offset.
C21_AnchorFirstVisible ==
    (call.op = "normalized" /\ FullyResolved) =>
        /\ ~self.thrown
        /\ PartlyVisible(self.target, self.viewSequence, call.size)
        /\ \A n \in 1..(self.viewSequence - 1) :
              ~PartlyVisible(self.target, n, call.size)

\* C21 (amended): after normalization of a fully resolved window the extent
\* of the anchor meets the viewport (an end at exactly 0 counts) and the
\* extent of no item before the anchor does, with two exceptions: when the
\* offset is negative and the last Spec ends before the viewport size the
\* call returns at once and leaves the anchor, visible or not; and when the
\* whole sequence lies beyond the viewport the anchor is the first item.
C21_AnchorFirstVisibleBeforeEnd ==
    (call.op = "normalized" /\ FullyResolved) =>
        /\ ~self.thrown
        /\ IF EndReachedReturn
           THEN self.viewSequence = call.viewSequence
           ELSE IF BeyondViewport
           THEN self.viewSequence = 1
           ELSE /\ Visible(self.target, self.viewSequence, call.size)
                /\ \A n \in 1..(self.viewSequence - 1) :
                      ~Visible(self.target, n, call.size)

\* offset 0 with the previous item ending exactly at 0: it is promoted,
\* although no part of it lies inside the viewport
C21_Witness ==
    /\ call.op = "normalized"
    /\ FullyResolved
    /\ call.scrollOffset = Num(0)
    /\ call.viewSequence = 2
    /\ self.viewSequence = 1
    /\ SpecEnd(self.target[1]) = Num(0)
    /\ Visible(self.target, 1, call.size)
    /\ ~PartlyVisible(self.target, 1, call.size)

\* The signed sum of the sizes of the items between the anchor the call
\* started from and the anchor it left: minus for previous items, plus for
\* next items, 0 when the anchor stayed.
AnchorShift ==
    IF call.first.viewSequence < call.viewSequence
    THEN 0 - PassedSize(self.target, call.first.viewSequence, call.viewSequence)
    ELSE PassedSize(self.target, call.viewSequence, call.first.viewSequence)

\* C22: for every call of _normalizeScrollOffset the returned offset minus
\* the input offset and the particle position after minus before both equal
\* the signed sum of the sizes of the items the anchor moved across; when
\* the anchor stays, neither changes.
C22_NormalizeRebases ==
    (call.op = "normalized" /\ ~call.first.thrown) =>
        /\ call.first.ret = JsAdd(call.scrollOffset, Num(AnchorShift))
        /\ call.first.position = JsAdd(call.position, Num(AnchorShift))
        /\ call.first.viewSequence = call.viewSequence =>
              /\ call.first.ret = call.scrollOffset
              /\ call.first.position = call.position

\* the anchor moved to the next item, whose size differs from the size of
\* the item it left
C22_Witness ==
    /\ call.op = "normalized"
    /\ call.viewSequence # 0
    /\ call.first.viewSequence = call.viewSequence + 1
    /\ AnchorShift > 0
    /\ call.first.ret = JsAdd(call.scrollOffset, Num(AnchorShift))
    /\ self.target[_lookupSpecByViewSequence(self.target, call.first.viewSequence)].size
            # AnchorShift

----------------------------------------------------------------------------
(* Properties of the life of an interpolation *)

\* An interpolation is under way: a transitionable exists and its progress
\* has not reached 1.
ActiveInterpolation(this) ==
    this._transitionable.exists /\ Progress(this) < TweenSteps

\* set() is called with a set that carries a transition.
SetWithTransition ==
    \E s \in SetCatalogue : s.transition /\ node' = set(node, s)

\* C23 (as claimed): when set() is called with a transition on a node that
\* has no active interpolation (none was started, or the earlier one has run
\* to completion), an interpolation starts at this moment and its start set
\* is the set committed last before the call.
C23_StartsFromPreviousFinal ==
    [][ ( /\ Alive
          /\ node._lastSet # NoSet
          /\ ~ActiveInterpolation(node)
          /\ SetWithTransition )
        => /\ node'._transitionable = NewTransitionable(clock)
           /\ node'._originalSet = node._lastSet ]_vars

\* getSpec() is called on the node.
GetSpecStep ==
    /\ Alive
    /\ clock' = clock
    /\ node'._invalidated = node._invalidated
    /\ node'._removing = node._removing
    /\ node'.renderNode = node.renderNode
    /\ node'.trueSizeRequested = node.trueSizeRequested
    /\ node' = getSpec(node).this

\* The channels of the spec that _modifySpecFromSet builds from a set.
ChannelsOfSet(this, s) ==
    LET spec == _modifySpecFromSet(
                    [NoSpecFields EXCEPT !.renderNode = this._spec.renderNode], s)
    IN  [opacity |-> spec.opacity, size |-> spec.size, origin |-> spec.origin,
         align |-> spec.align, transform |-> spec.transform]

\* C24 (as claimed): once the progress of a transition has reached 1, the
\* first getSpec() returns the values of the target set, and a later
\* getSpec() (the transitionable has no pending action any more) returns the
\* committed spec itself and leaves no transitionable on the node.
C24_InterpolationRetired ==
    [][ /\ ( /\ GetSpecStep
             /\ node._transitionable.exists /\ node._transitionable.action
             /\ Progress(node) = TweenSteps
             /\ node._lastSet # NoSet )
           => /\ ~node'.thrown
              /\ Reading(node) = ChannelsOfSet(node, node._lastSet)
        /\ ( /\ GetSpecStep
             /\ node._transitionable.exists /\ ~node._transitionable.action )
           => /\ ~node'.thrown
              /\ ~getSpec(node).fresh
              /\ getSpec(node).spec = node'._spec
              /\ ~node'._transitionable.exists ]_vars

\* The fields of the committed spec that a set writes, and the recorded sets.
Committed(this) ==
    [size |-> this._spec.size, origin |-> this._spec.origin,
     align |-> this._spec.align, transform |-> this._spec.transform,
     opacity |-> this._spec.opacity, hide |-> this._spec.hide,
     originalSet |-> this._originalSet, targetSet |-> this._targetSet,
     lastSet |-> this._lastSet]

\* C25 (as claimed): from every state of a node, a getSpec() call leaves
\* the committed spec's size, origin, align, transform, opacity and hide and
\* the start, target and last sets as they were, and while an interpolation
\* is active it ends without an error and returns a new spec object.
C25_GetSpecIsPureRead ==
    Alive =>
        LET got == getSpec(node)
        IN  /\ Committed(got.this) = Committed(node)
            /\ ActiveInterpolation(node) =>
                    /\ ~got.this.thrown
                    /\ got.fresh

----------------------------------------------------------------------------
(* The removal flags of a node *)

\* set() is called on the node.
SetStep == Alive /\ \E s \in SetCatalogue : node' = set(node, s)

\* C26 (as claimed): the spec a getSpec() call returns has removed = true
\* exactly when the node got no set() since its last reset() (_invalidated
\* is false), interpolating or not; and set() clears the mark of remove().
C26_RemovedFlag ==
    [][ /\ (GetSpecStep /\ ~node'.thrown) =>
                (getSpec(node).spec.removed = "true" <=> ~node._invalidated)
        /\ SetStep => ~node'._removing ]_vars

----------------------------------------------------------------------------
(* Integration of the wheel delta *)

\* The instance as _integrateScrollDelta finds it in the first pass of a
\* commit that runs _layout: after _getScrollOffset, the cache writes,
\* the layout, _normalizeScrollOffset and _updateBounds.
IntegrationInput(this, size) ==
    LET got == _getScrollOffset(this)
        laid == [got.this EXCEPT !.contextSizeCache = size,
                                 !.scrollOffsetCache = got.ret,
                                 !.isDirty = FALSE]
        norm == _normalizeScrollOffset(FlowLayout(laid, size, got.ret),
                                       size, got.ret)
    IN  IF norm.this.thrown THEN norm.this
        ELSE _updateBounds(norm.this, size, norm.ret)

\* _integrateScrollDelta keeps the effective offset of the instance.
KeepsOffset(this) ==
    _getScrollOffset(_integrateScrollDelta(this).this).ret
        = _getScrollOffset(this).ret

LayoutEnded == hist'.op \in {"commit", "relayout"} /\ hist'.ran /\ pc' = "idle"

\* C27: at the end of every commit that ran _layout, scrollDelta is 0 and
\* the effective offset is the rounded particle position plus moveOffset;
\* and with no boundary reached _integrateScrollDelta leaves the effective
\* offset as it was before the integration (a commit with no pending delta
\* has nothing to integrate).
C27_DeltaIntegrated ==
    [][ /\ LayoutEnded =>
              /\ self'.scroll.scrollDelta = Num(0)
              /\ _getScrollOffset(self').ret = RoundedPlusMove(self')
        /\ (hist'.op = "commit" /\ hist'.ran /\ JsTruthy(self.scroll.scrollDelta)) =>
              \A size \in ContextSizes :
                 LET in == IntegrationInput(self, size)
                 IN  (~in.thrown /\ ~HasFirst(in) /\ ~HasLast(in))
                        => KeepsOffset(in) ]_vars

\* _integrateScrollDelta returns the effective offset the instance had and,
\* when a delta is pending, leaves the particle at the rounded position
\* plus the delta, at rest, with no delta pending.
MovesDelta(this) ==
    LET integ == _integrateScrollDelta(this)
    IN  /\ integ.ret = _getScrollOffset(this).ret
        /\ JsTruthy(this.scroll.scrollDelta) =>
              /\ integ.this.scroll.position =
                    JsAdd(_getParticlePosition(this), this.scroll.scrollDelta)
              /\ integ.this.scroll.velocity = Num(0)
              /\ integ.this.scroll.scrollDelta = Num(0)

\* The effective offset after _integrateScrollDelta is the one of before,
\* up to the rounding of the new particle position (half a rounding step).
WithinRounding(this) ==
    LET before == _getScrollOffset(this).ret
        after == _getScrollOffset(_integrateScrollDelta(this).this).ret
    IN  \/ after = before
        \/ /\ IsNum(before) /\ IsNum(after)
           /\ 2 * Abs(after.n - before.n) <= particleRounding

\* C27 (amended): at the end of every commit that ran _layout, scrollDelta
\* is 0 and the effective offset is the rounded particle position plus
\* moveOffset; with no boundary reached _integrateScrollDelta returns the
\* effective offset of before the integration and moves the delta into the
\* particle position (velocity 0), and the effective offset read afterwards
\* is the one of before up to half a rounding step of the particle.
C27_DeltaIntegratedUpToRounding ==
    [][ /\ LayoutEnded =>
              /\ self'.scroll.scrollDelta = Num(0)
              /\ _getScrollOffset(self').ret = RoundedPlusMove(self')
        /\ (hist'.op = "commit" /\ hist'.ran /\ JsTruthy(self.scroll.scrollDelta)) =>
              \A size \in ContextSizes :
                 LET in == IntegrationInput(self, size)
                 IN  (~in.thrown /\ ~HasFirst(in) /\ ~HasLast(in))
                        => MovesDelta(in) /\ WithinRounding(in) ]_vars

\* A commit has integrated a wheel delta with no boundary reached and the
\* layout ended: the particle took the delta and rests off the rounding
\* grid.
C27_Witness ==
    /\ hist.op = "commit" /\ hist.ran /\ pc = "idle"
    /\ hist.delta = Num(-3)
    /\ ~HasFirst(self) /\ ~HasLast(self)
    /\ self.scroll.scrollDelta = Num(0)
    /\ self.scroll.velocity = Num(0)
    /\ _getParticlePosition(self) # self.scroll.position

====
